---- MODULE Spec2Model ----
(***************************************************************************)
(* A model of the printf family of src/unnamed/part_000 (utl_printf.c):    *)
(* the character sinks, the integer formatter (_ntoa, _ntoa_format,        *)
(* _out_rev), the format-string interpreter (_vsnprintf) and the public    *)
(* entry points.  One call is a frame record; the interpreter advances it  *)
(* one stage of the %[flags][width][.precision][length]conv grammar at a   *)
(* time.                                                                   *)
(*                                                                         *)
(* Characters are one-character strings, C strings are sequences of them   *)
(* and NUL is the terminator.  64-bit quantities (NTOA_VALUE_TYPE, size_t, *)
(* the integer arguments) are four 16-bit limbs, most significant first,   *)
(* so that they keep their width.                                          *)
(***************************************************************************)
EXTENDS Integers, Sequences, FiniteSets, TLC

VARIABLES call, prev, abi, port, libc, mutex, task

vars == <<call, prev, abi, port, libc, mutex, task>>

\* the variables of the CPU ports
cpu == <<port, libc, mutex, task>>

---------------------------------------------------------------------------
(* Program constants                                                       *)

PRINTF_NTOA_BUFFER_SIZE == 32

BASE_BINARY == 2

BASE_OCTAL == 8

BASE_DECIMAL == 10

BASE_HEX == 16

FLAGS_ZEROPAD == "ZEROPAD"

FLAGS_LEFT == "LEFT"

FLAGS_PLUS == "PLUS"

FLAGS_SPACE == "SPACE"

FLAGS_HASH == "HASH"

FLAGS_UPPERCASE == "UPPERCASE"

FLAGS_CHAR == "CHAR"

FLAGS_SHORT == "SHORT"

FLAGS_LONG == "LONG"

FLAGS_LONG_LONG == "LONG_LONG"

FLAGS_PRECISION == "PRECISION"

FLAGS_ADAPT_EXP == "ADAPT_EXP"

FLAGS_POINTER == "POINTER"

NUL == "NUL"

\* a pointer to characters: the null pointer, or the memory it points to
NULL == [null |-> TRUE, cells |-> <<>>]

Ptr(cells) == [null |-> FALSE, cells |-> cells]

---------------------------------------------------------------------------
(* 64-bit unsigned arithmetic on limbs <<a3, a2, a1, a0>>, a3 the most     *)
(* significant; every limb is in 0..65535.                                 *)

Limb == 256 * 256

Zero64 == <<0, 0, 0, 0>>

One64 == <<0, 0, 0, 1>>

SIZE_MAX == <<65535, 65535, 65535, 65535>>

\* the 64-bit pattern of a value that fits a (32-bit) int, sign-extended
FromInt(i) ==
  LET hi == IF i < 0 THEN Limb - 1 ELSE 0
  IN  <<hi, hi, (i \div Limb) % Limb, i % Limb>>

IsZero64(v) == v = Zero64

\* v < w, unsigned
Lt64(v, w) ==
  \/ v[1] < w[1]
  \/ v[1] = w[1] /\ v[2] < w[2]
  \/ v[1] = w[1] /\ v[2] = w[2] /\ v[3] < w[3]
  \/ v[1] = w[1] /\ v[2] = w[2] /\ v[3] = w[3] /\ v[4] < w[4]

\* v + k (mod 2^64) for a small k >= 0
AddSmall64(v, k) ==
  LET s0 == v[4] + k
      s1 == v[3] + (s0 \div Limb)
      s2 == v[2] + (s1 \div Limb)
      s3 == v[1] + (s2 \div Limb)
  IN  <<s3 % Limb, s2 % Limb, s1 % Limb, s0 % Limb>>

\* the one's complement
Not64(v) == <<Limb - 1 - v[1], Limb - 1 - v[2], Limb - 1 - v[3], Limb - 1 - v[4]>>

\* -v (mod 2^64): unary minus on an unsigned 64-bit value
Neg64(v) == AddSmall64(Not64(v), 1)

\* v - 1 (mod 2^64)
Dec64(v) == Neg64(AddSmall64(Neg64(v), 1))

\* v / b and v % b for a small divisor b (short division)
Div64(v, b) ==
  LET t3 == v[1]
      t2 == (t3 % b) * Limb + v[2]
      t1 == (t2 % b) * Limb + v[3]
      t0 == (t1 % b) * Limb + v[4]
  IN  <<t3 \div b, t2 \div b, t1 \div b, t0 \div b>>

Mod64(v, b) ==
  LET t3 == v[1]
      t2 == (t3 % b) * Limb + v[2]
      t1 == (t2 % b) * Limb + v[3]
      t0 == (t1 % b) * Limb + v[4]
  IN  t0 % b

\* v * b + d (mod 2^64) for a small b and d
MulAdd64(v, b, d) ==
  LET s0 == v[4] * b + d
      s1 == v[3] * b + (s0 \div Limb)
      s2 == v[2] * b + (s1 \div Limb)
      s3 == v[1] * b + (s2 \div Limb)
  IN  <<s3 % Limb, s2 % Limb, s1 % Limb, s0 % Limb>>

\* the sign bit of a 64-bit pattern read as signed
IsNeg64(v) == v[1] >= Limb \div 2

\* the value of a 64-bit pattern that is below 2^31
ToNat(v) == v[3] * Limb + v[4]

FitsNat(v) == v[1] = 0 /\ v[2] = 0 /\ v[3] < Limb \div 2

\* the value of a 64-bit pattern that, read as signed, fits an int
ToInt(v) == IF IsNeg64(v) THEN 0 - ToNat(Neg64(v)) ELSE ToNat(v)

\* conversions to the narrower integer types, kept as 64-bit patterns:
\* truncate to w bits, then zero- or sign-extend
Trunc8(v) == <<0, 0, 0, v[4] % 256>>

Trunc16(v) == <<0, 0, 0, v[4]>>

Trunc32(v) == <<0, 0, v[3], v[4]>>

SignExt8(v) ==
  IF v[4] % 256 >= 128
    THEN <<Limb - 1, Limb - 1, Limb - 1, (Limb - 256) + (v[4] % 256)>>
    ELSE Trunc8(v)

SignExt16(v) ==
  IF v[4] >= Limb \div 2 THEN <<Limb - 1, Limb - 1, Limb - 1, v[4]>> ELSE Trunc16(v)

SignExt32(v) ==
  IF v[3] >= Limb \div 2 THEN <<Limb - 1, Limb - 1, v[3], v[4]>> ELSE Trunc32(v)

\* the limits of int, long long and their unsigned types
INT_MAX == <<0, 0, 32767, 65535>>

INT_MIN == <<65535, 65535, 32768, 0>>

UINT_MAX == <<0, 0, 65535, 65535>>

LLONG_MAX == <<32767, 65535, 65535, 65535>>

LLONG_MIN == <<32768, 0, 0, 0>>

ULLONG_MAX == <<65535, 65535, 65535, 65535>>

---------------------------------------------------------------------------
(* Characters                                                              *)

DigitChars == <<"0", "1", "2", "3", "4", "5", "6", "7", "8", "9">>

LowerChars == <<"a", "b", "c", "d", "e", "f">>

UpperChars == <<"A", "B", "C", "D", "E", "F">>

\* the characters the model gives a character code: (char)code for the
\* int argument of %c
CharCodes == {0, 37, 65, 77, 97, 120}

CharOf(code) ==
  CASE code = 0 -> NUL
    [] code = 37 -> "%"
    [] code = 65 -> "A"
    [] code = 77 -> "M"
    [] code = 97 -> "a"
    [] code = 120 -> "x"

\* ch - '0' for a digit character
DigitValue(ch) == CHOOSE d \in 0..9 : DigitChars[d + 1] = ch

Spaces(n) == [i \in 1..n |-> " "]

\* F(v), where v is evaluated before F is applied to it
With(v, F(_)) == CHOOSE r \in {F(x) : x \in {v}} : TRUE

Reverse(s) == [i \in 1..Len(s) |-> s[Len(s) + 1 - i]]

---------------------------------------------------------------------------
(* The platform: the sizes the build gives long, size_t and pointers.      *)
(* "LP64" is the Unix port (src/source/port/unix), "ILP32" the 32-bit      *)
(* microcontroller the library is written for.                             *)

ABIs == {"ILP32", "LP64"}

SizeofLong(a) == IF a = "LP64" THEN 8 ELSE 4

SizeofPtr(a) == IF a = "LP64" THEN 8 ELSE 4

SizeofLongLong(a) == 8

\* (size_t)-1
SizeMax(a) == IF SizeofPtr(a) = 8 THEN SIZE_MAX ELSE <<0, 0, Limb - 1, Limb - 1>>

\* n - 1U in size_t arithmetic
SizeDec(a, n) == IF IsZero64(n) THEN SizeMax(a) ELSE Dec64(n)

---------------------------------------------------------------------------
(* The character sinks.  A frame c is one call of _vsnprintf: see          *)
(* NewFrame.  Every sink records the invocation in c.log.                  *)

\* ((char*)buffer)[i] = ch: a store into the destination memory, whose
\* allocated size is Len(c.buffer); a store outside it is recorded in c.oob
Store(c, i, ch) ==
  IF i < Len(c.buffer.cells)
    THEN [c EXCEPT !.buffer.cells[i + 1] = ch]
    ELSE [c EXCEPT !.oob = TRUE]

_out_buffer_unguarded(c, ch, at) ==
  IF FitsNat(at) THEN Store(c, ToNat(at), ch) ELSE [c EXCEPT !.oob = TRUE]

_out_buffer(c, ch, at) ==
  IF Lt64(at, c.maxlen) THEN Store(c, ToNat(at), ch) ELSE c

_out_null(c, ch, at) == c

_out_char(c, ch, at) ==
  IF ch # NUL THEN [c EXCEPT !.io = Append(@, ch)] ELSE c

_out_fct_unguarded(c, ch, at) == [c EXCEPT !.cb = Append(@, ch)]

_out_fct(c, ch, at) ==
  IF ch # NUL THEN [c EXCEPT !.cb = Append(@, ch)] ELSE c

\* out(ch, buffer, at, maxlen) through the function pointer c.out
Out(c, ch, at) ==
  LET d == [c EXCEPT !.log = Append(@, [ch |-> ch, at |-> at])]
  IN  CASE c.out = "_out_buffer" -> _out_buffer(d, ch, at)
        [] c.out = "_out_null" -> _out_null(d, ch, at)
        [] c.out = "_out_char" -> _out_char(d, ch, at)
        [] c.out = "_out_fct" -> _out_fct(d, ch, at)

\* out(ch, buffer, idx++, maxlen)
OutIdx(c, ch) == [Out(c, ch, FromInt(c.idx)) EXCEPT !.idx = @ + 1]

\* out(s[1], buffer, idx++, maxlen); out(s[2], buffer, idx++, maxlen); ...
RECURSIVE OutAll(_, _)
OutAll(c, s) ==
  IF s = <<>> THEN c
  ELSE IF Len(s) = 1 THEN OutIdx(c, s[1])
  ELSE With(OutAll(c, SubSeq(s, 1, Len(s) \div 2)),
            LAMBDA d : OutAll(d, SubSeq(s, Len(s) \div 2 + 1, Len(s))))

---------------------------------------------------------------------------
(* Helpers of the interpreter                                              *)

\* the length of str limited by maxsize (a size_t)
_strnlen_s(str, maxsize) ==
  IF Lt64(maxsize, FromInt(Len(str))) THEN ToNat(maxsize) ELSE Len(str)

_is_digit(ch) == \E d \in 1..10 : DigitChars[d] = ch

\* the digits at mem[pos], mem[pos+1], ...: the value and the position after
RECURSIVE AtoiFrom(_, _, _)
AtoiFrom(mem, pos, i) ==
  IF _is_digit(mem[pos])
    THEN AtoiFrom(mem, pos + 1, i * 10 + DigitValue(mem[pos]))
    ELSE [value |-> i, pos |-> pos]

_atoi(mem, pos) == AtoiFrom(mem, pos, 0)

\* output buf[len-1] .. buf[0], taking care of the space padding;
\* buf holds len characters
_out_rev(c, buf, width, flags) ==
  LET len == Len(buf)
      pre == IF FLAGS_LEFT \notin flags /\ FLAGS_ZEROPAD \notin flags /\ len < width
               THEN width - len ELSE 0
      post == IF FLAGS_LEFT \in flags /\ pre + len < width
                THEN width - (pre + len) ELSE 0
  IN  With(Spaces(pre) \o Reverse(buf) \o Spaces(post), LAMBDA s : OutAll(c, s))

---------------------------------------------------------------------------
(* The integer formatter.  The scratch buffer buf[PRINTF_NTOA_BUFFER_SIZE] *)
(* is the sequence of the characters stored so far: len is Len(buf) and    *)
(* buf[len++] = ch appends.                                                *)

Min(a, b) == IF a < b THEN a ELSE b

Max(a, b) == IF a > b THEN a ELSE b

\* while ((len < n) && (len < PRINTF_NTOA_BUFFER_SIZE)) buf[len++] = '0';
ZeroPad(buf, n) ==
  LET stop == Min(n, PRINTF_NTOA_BUFFER_SIZE)
  IN  IF Len(buf) < stop THEN buf \o [i \in 1..(stop - Len(buf)) |-> "0"] ELSE buf

\* if (len < PRINTF_NTOA_BUFFER_SIZE) buf[len++] = ch;
Put(buf, ch) == IF Len(buf) < PRINTF_NTOA_BUFFER_SIZE THEN Append(buf, ch) ELSE buf

\* The locals of _ntoa_format are the record n: buf (and len, its length),
\* negative, base, precision, width, flags and unpadded_len.

\* no column of the width kept for the sign
NtoaReserveSignNone(n) == n

\* if (width && (flags & FLAGS_ZEROPAD) && (negative || (flags & (FLAGS_PLUS | FLAGS_SPACE)))) width--;
NtoaReserveSign(n) ==
  IF /\ FLAGS_LEFT \notin n.flags /\ n.width # 0 /\ FLAGS_ZEROPAD \in n.flags
     /\ (n.negative \/ FLAGS_PLUS \in n.flags \/ FLAGS_SPACE \in n.flags)
    THEN [n EXCEPT !.width = @ - 1] ELSE n

\* the zeros up to the width
NtoaPadWidth(n) ==
  IF FLAGS_LEFT \notin n.flags /\ FLAGS_ZEROPAD \in n.flags
    THEN [n EXCEPT !.buf = ZeroPad(@, n.width)] ELSE n

\* the zeros up to the precision
NtoaPadPrecision(n) == [n EXCEPT !.buf = ZeroPad(@, n.precision)]

\* the alternate form kept after padding zeros
NtoaOctalKeepsHash(n) == n

\* if (base == BASE_OCTAL && (len > unpadded_len)) flags &= ~FLAGS_HASH;
NtoaOctal(n) ==
  IF n.base = BASE_OCTAL /\ Len(n.buf) > n.unpadded_len
    THEN [n EXCEPT !.flags = @ \ {FLAGS_HASH}] ELSE n

\* if (unpadded_len < len) len--;
NtoaTakeBack(n) ==
  IF n.unpadded_len < Len(n.buf)
    THEN [n EXCEPT !.buf = SubSeq(@, 1, Len(@) - 1)] ELSE n

\* if (len && (base == BASE_HEX)) { if (unpadded_len < len) len--; }
NtoaTakeBackHex(n) ==
  IF Len(n.buf) # 0 /\ n.base = BASE_HEX THEN NtoaTakeBack(n) ELSE n

\* the padding taken back to make room for the prefix
NtoaMakeRoom(n) ==
  IF /\ FLAGS_PRECISION \notin n.flags /\ Len(n.buf) # 0
     /\ (Len(n.buf) = n.precision \/ Len(n.buf) = n.width)
    THEN NtoaTakeBackHex(NtoaTakeBack(n)) ELSE n

\* the letter of the prefix
NtoaPrefixLetter(n) ==
  IF n.base = BASE_HEX /\ FLAGS_UPPERCASE \notin n.flags
       /\ Len(n.buf) < PRINTF_NTOA_BUFFER_SIZE
    THEN [n EXCEPT !.buf = Append(@, "x")]
  ELSE IF n.base = BASE_HEX /\ FLAGS_UPPERCASE \in n.flags
       /\ Len(n.buf) < PRINTF_NTOA_BUFFER_SIZE
    THEN [n EXCEPT !.buf = Append(@, "X")]
  ELSE IF n.base = BASE_BINARY /\ Len(n.buf) < PRINTF_NTOA_BUFFER_SIZE
    THEN [n EXCEPT !.buf = Append(@, "b")]
  ELSE n

NtoaPrefixZero(n) == [n EXCEPT !.buf = Put(@, "0")]

\* handle hash
NtoaHash(n) ==
  IF n.flags \cap {FLAGS_HASH, FLAGS_POINTER} # {}
    THEN NtoaPrefixZero(NtoaPrefixLetter(NtoaMakeRoom(n))) ELSE n

\* the sign
NtoaSign(n) ==
  IF Len(n.buf) < PRINTF_NTOA_BUFFER_SIZE
    THEN IF n.negative THEN [n EXCEPT !.buf = Append(@, "-")]
         ELSE IF FLAGS_PLUS \in n.flags THEN [n EXCEPT !.buf = Append(@, "+")]
         ELSE IF FLAGS_SPACE \in n.flags THEN [n EXCEPT !.buf = Append(@, " ")]
         ELSE n
    ELSE n

\* the scratch buffer goes to the sink; c.scratch keeps the largest len
NtoaOut(c, n) ==
  _out_rev([c EXCEPT !.scratch = Max(@, Len(n.buf))], n.buf, n.width, n.flags)

_ntoa_format(c, buf, negative, base, precision, width, flags) ==
  NtoaOut(c, NtoaSign(NtoaHash(NtoaOctal(NtoaPadPrecision(NtoaPadWidth(
    NtoaReserveSign([buf |-> buf, negative |-> negative, base |-> base,
                     precision |-> precision, width |-> width, flags |-> flags,
                     unpadded_len |-> Len(buf)])))))))

\* (char)(digit < 10 ? '0' + digit : (flags & FLAGS_UPPERCASE ? 'A' : 'a') + digit - 10)
DigitChar(digit, flags) ==
  IF digit < 10 THEN DigitChars[digit + 1]
  ELSE IF FLAGS_UPPERCASE \in flags THEN UpperChars[digit - 9]
  ELSE LowerChars[digit - 9]

\* do { buf[len++] = digit(value % base); value /= base; }
\* while (value && (len < PRINTF_NTOA_BUFFER_SIZE));
RECURSIVE NtoaDigits(_, _, _, _)
NtoaDigits(value, base, flags, buf) ==
  LET buf1 == Append(buf, DigitChar(Mod64(value, base), flags))
      rest == Div64(value, base)
  IN  IF ~IsZero64(rest) /\ Len(buf1) < PRINTF_NTOA_BUFFER_SIZE
        THEN NtoaDigits(rest, base, flags, buf1)
        ELSE buf1

\* an _ntoa that keeps FLAGS_HASH for the value zero
_ntoa_keeps_hash(c, value, negative, base, precision, width, flags) ==
  _ntoa_format(c, IF IsZero64(value) /\ FLAGS_PRECISION \in flags
                    THEN <<>> ELSE NtoaDigits(value, base, flags, <<>>),
               negative, base, precision, width, flags)

_ntoa(c, value, negative, base, precision, width, flags) ==
  IF IsZero64(value)
    THEN IF FLAGS_PRECISION \notin flags
           THEN _ntoa_format(c, <<"0">>, negative, base, precision, width,
                             flags \ {FLAGS_HASH})
         ELSE IF base = BASE_HEX
           THEN _ntoa_format(c, <<>>, negative, base, precision, width,
                             flags \ {FLAGS_HASH})
         ELSE _ntoa_format(c, <<>>, negative, base, precision, width, flags)
    ELSE _ntoa_format(c, NtoaDigits(value, base, flags, <<>>), negative, base,
                      precision, width, flags)

---------------------------------------------------------------------------
(* One call of _vsnprintf.                                                 *)
(*   out, buffer, maxlen  the sink, the destination (NULL, or the cells of *)
(*                        the memory allocated for it) and the limit       *)
(*   mem, pos             the memory at `format` and the read position:    *)
(*                        mem is the format string, its terminator, and    *)
(*                        whatever bytes lie behind it that were read      *)
(*   va, ap               the variadic arguments and how many were read    *)
(*   flags, width, precision, idx   the locals                             *)
(*   io, cb               the characters given to __io_putchar and to the  *)
(*                        callback                                         *)
(* and the history of the call: log (the sink invocations), reads (the     *)
(* types read with va_arg), oob (a store outside the destination), ub (an  *)
(* argument read that C leaves undefined).                                 *)

Idle == [pc |-> "idle"]

NewFrameKeepsSink(entry, out, buffer, maxlen, fmt, mem, va) ==
  [pc |-> "loop", entry |-> entry, out |-> out,
   buffer |-> buffer, maxlen |-> maxlen,
   fmt |-> fmt, mem |-> mem, pos |-> 1,
   va |-> va, ap |-> 0,
   flags |-> {}, width |-> 0, precision |-> 0, idx |-> 0,
   io |-> <<>>, cb |-> <<>>, ret |-> 0,
   log |-> <<>>, reads |-> <<>>, oob |-> FALSE, ub |-> FALSE,
   scratch |-> 0, fp |-> <<>>]

NewFrame(entry, out, buffer, maxlen, fmt, mem, va) ==
  [pc |-> "loop", entry |-> entry,
   out |-> IF buffer.null THEN "_out_null" ELSE out,
   buffer |-> buffer, maxlen |-> maxlen,
   fmt |-> fmt, mem |-> mem, pos |-> 1,
   va |-> va, ap |-> 0,
   flags |-> {}, width |-> 0, precision |-> 0, idx |-> 0,
   io |-> <<>>, cb |-> <<>>, ret |-> 0,
   log |-> <<>>, reads |-> <<>>, oob |-> FALSE, ub |-> FALSE,
   scratch |-> 0, fp |-> <<>>]

\* *format
Cur(c) == c.mem[c.pos]

\* whether an argument passed as type ty may be read as type kind
Compatible(kind, ty) ==
  CASE kind = "int" -> ty \in {"int", "uint"}
    [] kind = "long" -> ty \in {"long", "ulong"}
    [] kind = "llong" -> ty \in {"llong", "ullong"}
    [] kind = "double" -> ty = "double"
    [] kind = "char*" -> ty = "str"
    [] kind = "void*" -> ty \in {"ptr", "str"}

\* whether va_arg(va, kind) is defined: there is a next argument and it has
\* a compatible type
ArgDefined(c, kind) == c.ap < Len(c.va) /\ Compatible(kind, c.va[c.ap + 1].ty)

\* va_arg(va, kind): the value read, g where the read is undefined
ArgValue(c, kind, g) == IF ArgDefined(c, kind) THEN c.va[c.ap + 1].v ELSE g

\* the frame after va_arg(va, kind)
ArgNext(c, kind) ==
  [c EXCEPT !.ap = @ + 1, !.reads = Append(@, kind),
            !.ub = @ \/ ~ArgDefined(c, kind)]

---------------------------------------------------------------------------
(* The stages of the interpreter                                           *)

\* the non-format character: out(*format, buffer, idx++, maxlen); format++;
CopyLiteralStep(c) == [OutIdx(c, Cur(c)) EXCEPT !.pos = @ + 1]

\* '%': format++
BeginTokenStep(c) == [c EXCEPT !.pos = @ + 1, !.pc = "flags"]

FlagOf(ch) ==
  CASE ch = "0" -> FLAGS_ZEROPAD
    [] ch = "-" -> FLAGS_LEFT
    [] ch = "+" -> FLAGS_PLUS
    [] ch = " " -> FLAGS_SPACE
    [] ch = "#" -> FLAGS_HASH

RECURSIVE ScanFlags(_, _, _)
ScanFlags(mem, pos, flags) ==
  IF mem[pos] \in {"0", "-", "+", " ", "#"}
    THEN ScanFlags(mem, pos + 1, flags \cup {FlagOf(mem[pos])})
    ELSE [flags |-> flags, pos |-> pos]

EvalFlagsStep(c) ==
  LET r == ScanFlags(c.mem, c.pos, {})
  IN  [c EXCEPT !.flags = r.flags, !.pos = r.pos, !.pc = "width"]

\* width = (unsigned int)-w where w is the most negative int: the negation
\* overflows, which C leaves undefined.  The build either traps there, or
\* wraps and goes on with the width 2^31; that call pads 2^31 columns and
\* its count does not fit the int it returns, it is not followed further.
Overflows == {"trap", "wrap"}

NegateOverflowStep(c, o) ==
  [c EXCEPT !.flags = @ \cup {FLAGS_LEFT}, !.ub = TRUE, !.pc = o]

\* the width field; g is what an undefined va_arg yields, o what the
\* overflowing negation does
EvalWidthStep(c, g, o) ==
  IF _is_digit(Cur(c))
    THEN LET r == _atoi(c.mem, c.pos)
         IN  [c EXCEPT !.width = r.value, !.pos = r.pos, !.pc = "precision"]
  ELSE IF Cur(c) = "*"
    THEN LET w == SignExt32(ArgValue(c, "int", g))
             d == ArgNext(c, "int")
         IN  IF w = INT_MIN
               THEN NegateOverflowStep(d, o)
             ELSE IF IsNeg64(w)
               THEN [d EXCEPT !.flags = @ \cup {FLAGS_LEFT}, !.width = 0 - ToInt(w),
                              !.pos = @ + 1, !.pc = "precision"]
               ELSE [d EXCEPT !.width = ToInt(w), !.pos = @ + 1, !.pc = "precision"]
  ELSE [c EXCEPT !.width = 0, !.pc = "precision"]

EvalPrecisionStep(c, g) ==
  IF Cur(c) = "."
    THEN LET d == [c EXCEPT !.flags = @ \cup {FLAGS_PRECISION}, !.pos = @ + 1,
                            !.precision = 0, !.pc = "length"]
         IN  IF _is_digit(Cur(d))
               THEN LET r == _atoi(d.mem, d.pos)
                    IN  [d EXCEPT !.precision = r.value, !.pos = r.pos]
             ELSE IF Cur(d) = "*"
               THEN LET p == SignExt32(ArgValue(d, "int", g))
                    IN  [ArgNext(d, "int") EXCEPT
                           !.precision = IF IsNeg64(p) THEN 0 ELSE ToInt(p),
                           !.pos = @ + 1]
             ELSE d
    ELSE [c EXCEPT !.precision = 0, !.pc = "length"]

\* sizeof(T) == sizeof(long) ? FLAGS_LONG : FLAGS_LONG_LONG
LongOrLongLong(size) ==
  IF size = SizeofLong(abi) THEN FLAGS_LONG ELSE FLAGS_LONG_LONG

\* the length field where "ll" records FLAGS_LONG alone
EvalLengthStepLongOnly(c) ==
  LET d == [c EXCEPT !.pc = "spec"]
      e == [d EXCEPT !.pos = @ + 1]
  IN  CASE Cur(c) = "l" ->
             IF Cur(e) = "l"
               THEN [e EXCEPT !.flags = @ \cup {FLAGS_LONG}, !.pos = @ + 1]
               ELSE [e EXCEPT !.flags = @ \cup {FLAGS_LONG}]
        [] Cur(c) = "h" ->
             IF Cur(e) = "h"
               THEN [e EXCEPT !.flags = @ \cup {FLAGS_SHORT, FLAGS_CHAR},
                              !.pos = @ + 1]
               ELSE [e EXCEPT !.flags = @ \cup {FLAGS_SHORT}]
        [] Cur(c) = "t" ->
             [e EXCEPT !.flags = @ \cup {LongOrLongLong(SizeofPtr(abi))}]
        [] Cur(c) = "j" ->
             [e EXCEPT !.flags = @ \cup {LongOrLongLong(SizeofLongLong(abi))}]
        [] Cur(c) = "z" ->
             [e EXCEPT !.flags = @ \cup {LongOrLongLong(SizeofPtr(abi))}]
        [] OTHER -> d

\* sizeof(ptrdiff_t), sizeof(size_t): the pointer size; sizeof(intmax_t): 8
EvalLengthStep(c) ==
  LET d == [c EXCEPT !.pc = "spec"]
      e == [d EXCEPT !.pos = @ + 1]
  IN  CASE Cur(c) = "l" ->
             IF Cur(e) = "l"
               THEN [e EXCEPT !.flags = @ \cup {FLAGS_LONG, FLAGS_LONG_LONG},
                              !.pos = @ + 1]
               ELSE [e EXCEPT !.flags = @ \cup {FLAGS_LONG}]
        [] Cur(c) = "h" ->
             IF Cur(e) = "h"
               THEN [e EXCEPT !.flags = @ \cup {FLAGS_SHORT, FLAGS_CHAR},
                              !.pos = @ + 1]
               ELSE [e EXCEPT !.flags = @ \cup {FLAGS_SHORT}]
        [] Cur(c) = "t" ->
             [e EXCEPT !.flags = @ \cup {LongOrLongLong(SizeofPtr(abi))}]
        [] Cur(c) = "j" ->
             [e EXCEPT !.flags = @ \cup {LongOrLongLong(SizeofLongLong(abi))}]
        [] Cur(c) = "z" ->
             [e EXCEPT !.flags = @ \cup {LongOrLongLong(SizeofPtr(abi))}]
        [] OTHER -> d

---------------------------------------------------------------------------
(* The conversions.  Each ends with format++ and goes back to the loop.    *)

\* the magnitude taken by negating the value in its own type before the
\* conversion to NTOA_VALUE_TYPE: the negation of INT_MIN wraps to INT_MIN
NTOA_ABS_signed(x) ==
  IF ~IsNeg64(x) /\ ~IsZero64(x) THEN x ELSE IF x = INT_MIN THEN x ELSE Neg64(x)

\* NTOA_ABS(_x): (_x) > 0 ? (NTOA_VALUE_TYPE)(_x) : -((NTOA_VALUE_TYPE)_x)
NTOA_ABS(x) == IF ~IsNeg64(x) /\ ~IsZero64(x) THEN x ELSE Neg64(x)

\* the type an integer conversion reads with va_arg
IntKind(flags) ==
  IF FLAGS_LONG_LONG \in flags THEN "llong"
  ELSE IF FLAGS_LONG \in flags THEN "long"
  ELSE "int"

\* the signed argument without the conversion to signed char or short
SignedValueWide(kind, flags, v) ==
  CASE kind = "llong" -> v
    [] kind = "long" -> IF SizeofLong(abi) = 8 THEN v ELSE SignExt32(v)
    [] kind = "int" -> SignExt32(v)

\* the value of a signed argument read as `kind` and converted as the code
\* converts it, as a sign-extended 64-bit pattern
SignedValue(kind, flags, v) ==
  CASE kind = "llong" -> v
    [] kind = "long" -> IF SizeofLong(abi) = 8 THEN v ELSE SignExt32(v)
    [] kind = "int" ->
         IF FLAGS_CHAR \in flags THEN SignExt8(v)
         ELSE IF FLAGS_SHORT \in flags THEN SignExt16(v)
         ELSE SignExt32(v)

UnsignedValue(kind, flags, v) ==
  CASE kind = "llong" -> v
    [] kind = "long" -> IF SizeofLong(abi) = 8 THEN v ELSE Trunc32(v)
    [] kind = "int" ->
         IF FLAGS_CHAR \in flags THEN Trunc8(v)
         ELSE IF FLAGS_SHORT \in flags THEN Trunc16(v)
         ELSE Trunc32(v)

BaseOf(ch) ==
  IF ch \in {"x", "X"} THEN BASE_HEX
  ELSE IF ch = "o" THEN BASE_OCTAL
  ELSE IF ch = "b" THEN BASE_BINARY
  ELSE BASE_DECIMAL

\* case 'd' 'i' 'u' 'x' 'X' 'o' 'b'
ConvIntegerStep(c, g) ==
  LET ch == Cur(c)
      base == BaseOf(ch)
      f1 == IF base = BASE_DECIMAL THEN c.flags \ {FLAGS_HASH} ELSE c.flags
      f2 == IF ch = "X" THEN f1 \cup {FLAGS_UPPERCASE} ELSE f1
      f3 == IF ch \notin {"i", "d"} THEN f2 \ {FLAGS_PLUS, FLAGS_SPACE} ELSE f2
      flags == IF FLAGS_PRECISION \in f3 THEN f3 \ {FLAGS_ZEROPAD} ELSE f3
      kind == IntKind(flags)
      raw == ArgValue(c, kind, g)
      d == [ArgNext(c, kind) EXCEPT !.flags = flags]
      e == IF ch \in {"i", "d"}
             THEN LET value == SignedValue(kind, flags, raw)
                  IN  _ntoa(d, NTOA_ABS(value), IsNeg64(value), base,
                            c.precision, c.width, flags)
             ELSE _ntoa(d, UnsignedValue(kind, flags, raw), FALSE, base,
                        c.precision, c.width, flags)
  IN  [e EXCEPT !.pos = @ + 1, !.pc = "loop"]

\* case 'c'
ConvCharStep(c, g) ==
  LET pad == IF 1 < c.width THEN c.width - 1 ELSE 0
      ch == CharOf(Trunc8(ArgValue(c, "int", g))[4])
      d == ArgNext(c, "int")
      e == IF FLAGS_LEFT \notin c.flags
             THEN OutAll(d, Spaces(pad) \o <<ch>>)
             ELSE OutAll(d, <<ch>> \o Spaces(pad))
  IN  [e EXCEPT !.pos = @ + 1, !.pc = "loop"]

\* a case 's' that pads up to the width from the length of the whole string
ConvStringStepUnclipped(c, g) ==
  LET p == ArgValue(c, "char*", g)
      d == ArgNext(c, "char*")
      e == IF p.null
             THEN _out_rev(d, <<")", "l", "l", "u", "n", "(">>, c.width, c.flags)
             ELSE
               LET l == _strnlen_s(p.cells, IF c.precision # 0 THEN FromInt(c.precision)
                                                         ELSE SizeMax(abi))
                   pad == IF l < c.width THEN c.width - l ELSE 0
                   n == IF FLAGS_PRECISION \in c.flags
                          THEN Min(Len(p.cells), c.precision) ELSE Len(p.cells)
                   text == SubSeq(p.cells, 1, n)
               IN  IF FLAGS_LEFT \notin c.flags
                     THEN OutAll(d, Spaces(pad) \o text)
                     ELSE OutAll(d, text \o Spaces(pad))
  IN  [e EXCEPT !.pos = @ + 1, !.pc = "loop"]

\* case 's'
ConvStringStep(c, g) ==
  LET p == ArgValue(c, "char*", g)
      d == ArgNext(c, "char*")
      e == IF p.null
             THEN _out_rev(d, <<")", "l", "l", "u", "n", "(">>, c.width, c.flags)
             ELSE
               LET l0 == _strnlen_s(p.cells, IF c.precision # 0 THEN FromInt(c.precision)
                                                          ELSE SizeMax(abi))
                   l == IF FLAGS_PRECISION \in c.flags
                          THEN Min(l0, c.precision) ELSE l0
                   pad == IF l < c.width THEN c.width - l ELSE 0
                   \* while ((*p != 0) && (!(flags & FLAGS_PRECISION) || precision--))
                   n == IF FLAGS_PRECISION \in c.flags
                          THEN Min(Len(p.cells), c.precision) ELSE Len(p.cells)
                   text == SubSeq(p.cells, 1, n)
               IN  IF FLAGS_LEFT \notin c.flags
                     THEN OutAll(d, Spaces(pad) \o text)
                     ELSE OutAll(d, text \o Spaces(pad))
  IN  [e EXCEPT !.pos = @ + 1, !.pc = "loop"]

\* a case 'p' without the test for the null pointer
ConvPointerStepNoNil(c, g1, g2) ==
  LET width == SizeofPtr(abi) * 2 + 2
      flags == c.flags \cup {FLAGS_ZEROPAD, FLAGS_POINTER}
      raw == ArgValue(c, "void*", g1)
      value == IF SizeofPtr(abi) = 8 THEN raw ELSE Trunc32(raw)
      d == [ArgNext(c, "void*") EXCEPT !.width = width, !.flags = flags]
      e == _ntoa(d, value, FALSE, BASE_HEX, c.precision, width, flags)
  IN  [e EXCEPT !.pos = @ + 1, !.pc = "loop"]

\* case 'p'; g1 and g2 are what the first and the second va_arg yield where
\* they are undefined
ConvPointerStep(c, g1, g2) ==
  LET width == SizeofPtr(abi) * 2 + 2
      flags == c.flags \cup {FLAGS_ZEROPAD, FLAGS_POINTER}
      raw == ArgValue(c, "void*", g1)
      value == IF SizeofPtr(abi) = 8 THEN raw ELSE Trunc32(raw)
      d == [ArgNext(c, "void*") EXCEPT !.width = width, !.flags = flags]
      is_ll == SizeofPtr(abi) = SizeofLongLong(abi)
      e == IF IsZero64(value)
             THEN _out_rev(d, <<")", "l", "i", "n", "(">>, width, flags)
           ELSE IF is_ll
             THEN _ntoa(d, value, FALSE, BASE_HEX, c.precision, width, flags)
           ELSE _ntoa(ArgNext(d, "void*"), Trunc32(ArgValue(d, "void*", g2)),
                      FALSE, BASE_HEX, c.precision, width, flags)
  IN  [e EXCEPT !.pos = @ + 1, !.pc = "loop"]

---------------------------------------------------------------------------
(* Natural numbers of any size, for the 53-bit significands of double and  *)
(* their products: sequences of digits to the base BigBase, the least      *)
(* significant first, without leading zero digits; <<>> is 0.              *)

BigBase == 32768

BigBaseBits == 15

\* the digit i of a, 0 beyond its length
BigDigit(a, i) == IF i >= 1 /\ i <= Len(a) THEN a[i] ELSE 0

\* a without its leading zero digits
BigNorm(a) ==
  SubSeq(a, 1, CHOOSE n \in 0..Len(a) :
                 (n = 0 \/ a[n] # 0) /\ \A i \in (n + 1)..Len(a) : a[i] = 0)

\* the number n < 2^31, and the value of a number below 2^31
BigOfNat(n) ==
  BigNorm(<<n % BigBase, (n \div BigBase) % BigBase, n \div (BigBase * BigBase)>>)

BigToNat(a) ==
  BigDigit(a, 1) + BigBase * BigDigit(a, 2) + (BigBase * BigBase) * BigDigit(a, 3)

\* the number whose digit i is worth v[i], where v[i] may be negative or
\* beyond the base: the carries are taken from the low end upwards
RECURSIVE BigCarryFrom(_, _, _)
BigCarryFrom(v, i, carry) ==
  IF i > Len(v) THEN BigOfNat(carry)
  ELSE <<(v[i] + carry) % BigBase>> \o BigCarryFrom(v, i + 1, (v[i] + carry) \div BigBase)

BigCarry(v) == BigNorm(BigCarryFrom(v, 1, 0))

BigAdd(a, b) ==
  BigCarry([i \in 1..Max(Len(a), Len(b)) |-> BigDigit(a, i) + BigDigit(b, i)])

BigInc(a) == BigAdd(a, <<1>>)

\* a - b where a >= b
BigSub(a, b) == BigCarry([i \in 1..Len(a) |-> a[i] - BigDigit(b, i)])

BigLt(a, b) ==
  IF Len(a) # Len(b) THEN Len(a) < Len(b)
  ELSE \E i \in 1..Len(a) : a[i] < b[i] /\ \A j \in (i + 1)..Len(a) : a[j] = b[j]

\* a * k for k <= BigBase
BigMulSmall(a, k) == BigCarry([i \in 1..Len(a) |-> a[i] * k])

\* a * b where b has at most four digits: the products of two digits are
\* split into their low and high digit, and column k takes the low digits
\* of the products a[i] * b[j] with i + j = k + 1 and the high digits of
\* those with i + j = k
BigMulLow(a, b, i, j) == (BigDigit(a, i) * BigDigit(b, j)) % BigBase

BigMulHigh(a, b, i, j) == (BigDigit(a, i) * BigDigit(b, j)) \div BigBase

BigMulColumn(a, b, k) ==
  BigMulLow(a, b, k, 1) + BigMulLow(a, b, k - 1, 2)
  + BigMulLow(a, b, k - 2, 3) + BigMulLow(a, b, k - 3, 4)
  + BigMulHigh(a, b, k - 1, 1) + BigMulHigh(a, b, k - 2, 2)
  + BigMulHigh(a, b, k - 3, 3) + BigMulHigh(a, b, k - 4, 4)

BigMul(a, b) == BigCarry([k \in 1..(Len(a) + 4) |-> BigMulColumn(a, b, k)])

\* a * 2^s and a / 2^s for s < BigBaseBits
BigShlBits(a, s) ==
  BigNorm([i \in 1..(Len(a) + 1) |->
             ((BigDigit(a, i) * (2 ^ s)) % BigBase)
             + (BigDigit(a, i - 1) \div (2 ^ (BigBaseBits - s)))])

BigShrBits(a, s) ==
  BigNorm([i \in 1..Len(a) |->
             (a[i] \div (2 ^ s))
             + (BigDigit(a, i + 1) % (2 ^ s)) * (2 ^ (BigBaseBits - s))])

\* a * 2^n and a / 2^n
BigShl(a, n) ==
  IF a = <<>> THEN <<>>
  ELSE [i \in 1..(n \div BigBaseBits) |-> 0] \o BigShlBits(a, n % BigBaseBits)

BigShr(a, n) ==
  IF n \div BigBaseBits >= Len(a) THEN <<>>
  ELSE BigShrBits(SubSeq(a, (n \div BigBaseBits) + 1, Len(a)), n % BigBaseBits)

\* the number of binary digits of a digit, and of a number
Bits(n) == CHOOSE k \in 0..BigBaseBits : n < 2 ^ k /\ (k = 0 \/ n >= 2 ^ (k - 1))

BigBits(a) == IF a = <<>> THEN 0 ELSE (Len(a) - 1) * BigBaseBits + Bits(a[Len(a)])

\* the binary digit i
BigBit(a, i) == (BigDigit(a, (i \div BigBaseBits) + 1) \div (2 ^ (i % BigBaseBits))) % 2

BigOdd(a) == a # <<>> /\ a[1] % 2 = 1

\* a * BigBase + d
BigPush(a, d) == IF a = <<>> /\ d = 0 THEN <<>> ELSE <<d>> \o a

\* a / k and a % k for 0 < k <= BigBase: the quotient digits (not yet
\* normalised) followed by the remainder; t is that of the higher digits
BigDivRemSmallPut(t, d, k) ==
  <<(t[Len(t)] * BigBase + d) \div k>> \o SubSeq(t, 1, Len(t) - 1)
  \o <<(t[Len(t)] * BigBase + d) % k>>

RECURSIVE BigDivRemSmall(_, _)
BigDivRemSmall(a, k) ==
  IF a = <<>> THEN <<0>>
  ELSE BigDivRemSmallPut(BigDivRemSmall(Tail(a), k), a[1], k)

BigDivSmall(a, k) == BigNorm(SubSeq(BigDivRemSmall(a, k), 1, Len(a)))

BigModSmall(a, k) == BigDivRemSmall(a, k)[Len(a) + 1]

\* Long division by a divisor b whose leading digit is at least
\* BigBase / 2.  The digit k of the quotient for the remainder r < b * BigBase
\* is at most the quotient of the two leading digits of r by the leading
\* digit of b, and at least that less 2.
BigQuotientGuess(r, b) ==
  Min(BigBase - 1,
      (BigDigit(r, Len(b) + 1) * BigBase + BigDigit(r, Len(b))) \div b[Len(b)])

BigQuotientDigit(r, b) ==
  CHOOSE k \in Max(0, BigQuotientGuess(r, b) - 2)..BigQuotientGuess(r, b) :
    /\ ~BigLt(r, BigMulSmall(b, k))
    /\ BigLt(r, BigMulSmall(b, k + 1))

\* <<a / b, a % b>>, where an a shorter than b is its own remainder; t is
\* that of the higher digits of a, d the next digit of a and k the next
\* digit of the quotient
BigDivRemSet(q, r, b, k) == <<BigPush(q, k), BigSub(r, BigMulSmall(b, k))>>

BigDivRemPut(t, d, b) ==
  With(BigPush(t[2], d),
       LAMBDA r : With(BigQuotientDigit(r, b), LAMBDA k : BigDivRemSet(t[1], r, b, k)))

RECURSIVE BigDivRem(_, _)
BigDivRem(a, b) ==
  IF Len(a) < Len(b) THEN <<<<>>, a>>
  ELSE With(BigDivRem(Tail(a), b), LAMBDA t : BigDivRemPut(t, a[1], b))

---------------------------------------------------------------------------
(* double: IEEE 754 binary64 with round to nearest, ties to even.  A       *)
(* finite value is (-1)^neg * m * 2^e with m = 0 or 2^52 <= m < 2^53; the  *)
(* values of the model stay far from the overflow and underflow limits.    *)

Dbl(neg, m, e) == [cls |-> "fin", neg |-> neg, m |-> m, e |-> e]

DBL_MANT_DIG == 53

\* the double nearest to q * 2^e, where q has 53 bits and up says whether
\* the part cut off rounds upwards
DblRoundUp(neg, q, e, up) ==
  IF ~up THEN Dbl(neg, q, e)
  ELSE IF BigBits(BigInc(q)) > DBL_MANT_DIG
    THEN Dbl(neg, BigShr(BigInc(q), 1), e + 1)
  ELSE Dbl(neg, BigInc(q), e)

\* the double nearest to M * 2^E, where the d low bits of M are cut off
DblRoundCut(neg, M, E, d) ==
  DblRoundUp(neg, BigShr(M, d), E + d,
             /\ BigBit(M, d - 1) = 1
             /\ \/ BigShl(BigShr(M, d - 1), d - 1) # M
                \/ BigBit(M, d) = 1)

\* the double nearest to M * 2^E
DblRound(neg, M, E) ==
  IF M = <<>> THEN Dbl(neg, <<>>, 0)
  ELSE IF BigBits(M) <= DBL_MANT_DIG
    THEN Dbl(neg, BigShl(M, DBL_MANT_DIG - BigBits(M)), E - (DBL_MANT_DIG - BigBits(M)))
  ELSE DblRoundCut(neg, M, E, BigBits(M) - DBL_MANT_DIG)

DblIsZero(x) == x.m = <<>>

DblNeg(x) == [x EXCEPT !.neg = ~@]

\* the operands of an operation are evaluated first
DblMulOf(x, y) == DblRound(x.neg # y.neg, BigMul(x.m, y.m), x.e + y.e)

DblMul(x, y) == With(<<x, y>>, LAMBDA p : DblMulOf(p[1], p[2]))

\* x / y for y # 0: the quotient of the significands to 60 bits and more,
\* with one more bit that says whether the division left a remainder; both
\* significands are shifted by 7 more bits, which gives the divisor 60 bits
DblDivPut(neg, qr, e) ==
  DblRound(neg, BigAdd(BigAdd(qr[1], qr[1]), IF qr[2] = <<>> THEN <<>> ELSE <<1>>), e - 1)

DblDivOf(x, y) ==
  With(BigDivRem(BigShl(x.m, 60 + 7), BigShl(y.m, 7)),
       LAMBDA qr : DblDivPut(x.neg # y.neg, qr, x.e - 60 - y.e))

DblDiv(x, y) == With(<<x, y>>, LAMBDA p : DblDivOf(p[1], p[2]))

\* X * 2^E + Y * 2^E with the signs nx, ny
DblAddAligned(nx, X, ny, Y, E) ==
  IF nx = ny THEN DblRound(nx, BigAdd(X, Y), E)
  ELSE IF X = Y THEN Dbl(FALSE, <<>>, 0)
  ELSE IF BigLt(X, Y) THEN DblRound(ny, BigSub(Y, X), E)
  ELSE DblRound(nx, BigSub(X, Y), E)

\* x + y where x.e >= y.e; a y below 2^-64 of x counts as that much
DblAddOrdered(x, y) ==
  IF x.e - y.e > 64
    THEN DblAddAligned(x.neg, BigShl(x.m, 64), y.neg, <<1>>, x.e - 64)
    ELSE DblAddAligned(x.neg, BigShl(x.m, x.e - y.e), y.neg, y.m, y.e)

DblAddOf(x, y) ==
  IF DblIsZero(x) THEN y
  ELSE IF DblIsZero(y) THEN x
  ELSE IF x.e >= y.e THEN DblAddOrdered(x, y)
  ELSE DblAddOrdered(y, x)

DblAdd(x, y) == With(<<x, y>>, LAMBDA p : DblAddOf(p[1], p[2]))

DblSub(x, y) == DblAdd(x, DblNeg(y))

\* |x| < |y|
DblMagLt(x, y) ==
  IF DblIsZero(y) THEN FALSE
  ELSE IF DblIsZero(x) THEN TRUE
  ELSE IF x.e # y.e THEN x.e < y.e
  ELSE BigLt(x.m, y.m)

DblLt(x, y) ==
  IF DblIsZero(x) /\ DblIsZero(y) THEN FALSE
  ELSE IF x.neg # y.neg THEN x.neg
  ELSE IF x.neg THEN DblMagLt(y, x)
  ELSE DblMagLt(x, y)

DblEq(x, y) ==
  \/ DblIsZero(x) /\ DblIsZero(y)
  \/ x.neg = y.neg /\ x.m = y.m /\ x.e = y.e

\* (double)i for an integer of any size, and for an int
DblOfBig(a) == DblRound(FALSE, a, 0)

DblOfInt(i) == DblRound(i < 0, BigOfNat(IF i < 0 THEN 0 - i ELSE i), 0)

\* the integer part of |x|: the conversion to an integer type truncates
DblTrunc(x) ==
  IF DblIsZero(x) THEN <<>>
  ELSE IF x.e >= 0 THEN BigShl(x.m, x.e)
  ELSE BigShr(x.m, 0 - x.e)

\* (int)x
DblToInt(x) == IF x.neg THEN 0 - BigToNat(DblTrunc(x)) ELSE BigToNat(DblTrunc(x))

\* the special values of double
NaN == [cls |-> "nan", neg |-> FALSE, m |-> <<>>, e |-> 0]

Inf(neg) == [cls |-> "inf", neg |-> neg, m |-> <<>>, e |-> 0]

\* the double constants of the source
\* 0.5
Half == Dbl(FALSE, <<0, 0, 0, 128>>, -53)

\* 1.5
OneAndHalf == Dbl(FALSE, <<0, 0, 0, 192>>, -52)

\* 0.1760912590558
Log10OfOneAndHalf == Dbl(FALSE, <<18611, 5825, 10402, 180>>, -55)

\* 0.301029995663981
Log10Of2 == Dbl(FALSE, <<31227, 8510, 4173, 154>>, -54)

\* 0.289529654602168
Log10Slope == Dbl(FALSE, <<17249, 18142, 7837, 148>>, -54)

\* 3.321928094887362
Log2Of10 == Dbl(FALSE, <<9073, 4851, 19772, 212>>, -51)

\* 2.302585092994046
Ln10 == Dbl(FALSE, <<21782, 30570, 11974, 147>>, -51)

\* 0.6931471805599453
Ln2 == Dbl(FALSE, <<14831, 32244, 14603, 177>>, -53)

\* 1e9
PRINTF_FLOAT_NOTATION_THRESHOLD == Dbl(FALSE, <<0, 0, 13716, 238>>, -23)

\* 1e00, 1e01, ... 1e17
powers_of_10 ==
  << Dbl(FALSE, <<0, 0, 0, 128>>, -52),
     Dbl(FALSE, <<0, 0, 0, 160>>, -49),
     Dbl(FALSE, <<0, 0, 0, 200>>, -46),
     Dbl(FALSE, <<0, 0, 0, 250>>, -43),
     Dbl(FALSE, <<0, 0, 8192, 156>>, -39),
     Dbl(FALSE, <<0, 0, 10240, 195>>, -36),
     Dbl(FALSE, <<0, 0, 4608, 244>>, -33),
     Dbl(FALSE, <<0, 0, 19264, 152>>, -29),
     Dbl(FALSE, <<0, 0, 24080, 190>>, -26),
     Dbl(FALSE, <<0, 0, 13716, 238>>, -23),
     Dbl(FALSE, <<0, 16384, 380, 149>>, -19),
     Dbl(FALSE, <<0, 20480, 8667, 186>>, -16),
     Dbl(FALSE, <<0, 17408, 27218, 232>>, -13),
     Dbl(FALSE, <<0, 19072, 17011, 145>>, -9),
     Dbl(FALSE, <<0, 15648, 29456, 181>>, -6),
     Dbl(FALSE, <<0, 19560, 12244, 227>>, -3),
     Dbl(FALSE, <<0, 28609, 3556, 142>>, 1),
     Dbl(FALSE, <<8192, 2993, 20830, 177>>, 4) >>

---------------------------------------------------------------------------
(* The floating point formatter.  An unsigned int is kept as the int of    *)
(* the same 32 bits: a value below 0 is one that wrapped past 0.  The      *)
(* int_fast64_t parts of a number are naturals of any size.  The scratch   *)
(* buffer buf[PRINTF_FTOA_BUFFER_SIZE] is the sequence of the characters   *)
(* stored so far, as in the integer formatter.                             *)

PRINTF_FTOA_BUFFER_SIZE == 32

PRINTF_DEFAULT_FLOAT_PRECISION == 6

NUM_DECIMAL_DIGITS_IN_INT64_T == 18

PRINTF_MAX_PRECOMPUTED_POWER_OF_10 == NUM_DECIMAL_DIGITS_IN_INT64_T

PRINTF_MAX_SUPPORTED_PRECISION == NUM_DECIMAL_DIGITS_IN_INT64_T - 1

PRINTF_ABS(x) == IF x > 0 THEN x ELSE 0 - x

\* whether i is an index of powers_of_10
InTable(i) == i >= 0 /\ i < NUM_DECIMAL_DIGITS_IN_INT64_T

\* powers_of_10[i]; g is what the read yields where i is outside the table
PowerOf10(i, g) == IF InTable(i) THEN powers_of_10[i + 1] ELSE g

\* the exponent field of a double that is not subnormal, without its bias
get_exp2(x) == IF DblIsZero(x) THEN 0 - 1023 ELSE x.e + (DBL_MANT_DIG - 1)

\* a & ~1
BigClearBit0(a) == IF BigOdd(a) THEN BigSub(a, <<1>>) ELSE a

\* get_components, the rounding of the fractional part: remainder is what
\* is left of the scaled fraction behind the digits of fractional
GetComponentsRound(is_negative, integral, fractional, remainder, pw) ==
  IF DblLt(Half, remainder)
    THEN IF ~DblLt(DblOfBig(BigInc(fractional)), pw)
           THEN [integral |-> BigInc(integral), fractional |-> <<>>,
                 is_negative |-> is_negative]
           ELSE [integral |-> integral, fractional |-> BigInc(fractional),
                 is_negative |-> is_negative]
  ELSE IF DblEq(remainder, Half) /\ (fractional = <<>> \/ BigOdd(fractional))
    THEN [integral |-> integral, fractional |-> BigInc(fractional),
          is_negative |-> is_negative]
  ELSE [integral |-> integral, fractional |-> fractional, is_negative |-> is_negative]

\* get_components, from the scaled fraction on
GetComponentsSplit(is_negative, integral, scaled, pw) ==
  GetComponentsRound(is_negative, integral, DblTrunc(scaled),
                     DblSub(scaled, DblOfBig(DblTrunc(scaled))), pw)

\* get_components, the correction of the integral part for the precision 0
GetComponentsZero(abs_number, number_) ==
  IF /\ \/ ~DblLt(DblSub(abs_number, DblOfBig(number_.integral)), Half)
        \/ DblLt(Half, DblSub(abs_number, DblOfBig(number_.integral)))
     /\ BigOdd(number_.integral)
    THEN [number_ EXCEPT !.integral = BigInc(@)]
    ELSE number_

GetComponentsOf(is_negative, abs_number, precision, pw) ==
  IF precision = 0
    THEN GetComponentsZero(abs_number,
           GetComponentsSplit(is_negative, DblTrunc(abs_number),
             DblMul(DblSub(abs_number, DblOfBig(DblTrunc(abs_number))), pw), pw))
    ELSE GetComponentsSplit(is_negative, DblTrunc(abs_number),
           DblMul(DblSub(abs_number, DblOfBig(DblTrunc(abs_number))), pw), pw)

get_components(number, precision, g) ==
  GetComponentsOf(number.neg, [number EXCEPT !.neg = FALSE], precision,
                  PowerOf10(precision, g))

apply_scaling(num, normalization) ==
  IF normalization.multiply THEN DblMul(num, normalization.raw_factor)
  ELSE DblDiv(num, normalization.raw_factor)

unapply_scaling(normalized, normalization) ==
  IF normalization.multiply THEN DblDiv(normalized, normalization.raw_factor)
  ELSE DblMul(normalized, normalization.raw_factor)

update_normalization(sf, extra_multiplicative_factor) ==
  IF sf.multiply
    THEN [multiply |-> TRUE,
          raw_factor |-> DblMul(sf.raw_factor, extra_multiplicative_factor)]
  ELSE IF PRINTF_ABS(get_exp2(sf.raw_factor))
            > PRINTF_ABS(get_exp2(extra_multiplicative_factor))
    THEN [multiply |-> FALSE,
          raw_factor |-> DblDiv(sf.raw_factor, extra_multiplicative_factor)]
  ELSE [multiply |-> TRUE,
        raw_factor |-> DblDiv(extra_multiplicative_factor, sf.raw_factor)]

\* get_normalized_components, the rollover of the fractional part
GetNormalizedCarry(negative, integral, fractional, pw) ==
  IF ~DblLt(DblOfBig(fractional), pw)
    THEN [integral |-> BigInc(integral), fractional |-> <<>>, is_negative |-> negative]
    ELSE [integral |-> integral, fractional |-> fractional, is_negative |-> negative]

\* x += (scaled_remainder >= rounding_threshold); on the tie x &= ~1
RoundHalfEven(x, scaled_remainder) ==
  IF DblEq(scaled_remainder, Half) THEN BigClearBit0(BigInc(x))
  ELSE IF ~DblLt(scaled_remainder, Half) THEN BigInc(x)
  ELSE x

\* get_normalized_components, from the scaled remainder on
GetNormalizedRound(negative, precision, integral, scaled_remainder, pw) ==
  IF precision = 0
    THEN [integral |-> RoundHalfEven(integral, scaled_remainder),
          fractional |-> <<>>, is_negative |-> negative]
    ELSE GetNormalizedCarry(negative, integral,
           RoundHalfEven(DblTrunc(scaled_remainder),
                         DblSub(scaled_remainder, DblOfBig(DblTrunc(scaled_remainder)))),
           pw)

GetNormalizedOf(negative, precision, non_normalized, normalization, integral, pw) ==
  GetNormalizedRound(negative, precision, integral,
    apply_scaling(DblSub(non_normalized,
                         unapply_scaling(DblOfBig(integral), normalization)),
                  update_normalization(normalization, pw)),
    pw)

get_normalized_components(negative, precision, non_normalized, normalization, g) ==
  GetNormalizedOf(negative, precision, non_normalized, normalization,
                  DblTrunc(apply_scaling(non_normalized, normalization)),
                  PowerOf10(precision, g))

\* --x for an unsigned int x: 0 wraps to UINT_MAX, kept as -1
Dec32(x) == IF x = (0 - 2147483647) - 1 THEN 2147483647 ELSE x - 1

\* if (len < PRINTF_FTOA_BUFFER_SIZE) buf[len++] = ch;
FtoaPut(buf, ch) == IF Len(buf) < PRINTF_FTOA_BUFFER_SIZE THEN Append(buf, ch) ELSE buf

\* x - n for an unsigned int x: below 0 it wraps, as --x does n times
Sub32(x, n) ==
  IF x < ((0 - 2147483647) - 1) + n
    THEN (((x + 2147483647) + 1) + (2147483647 - n)) + 1
    ELSE x - n

\* The loops of sprint_broken_up_decimal take the decimal digits of a part
\* from the low end, x % 10 and x /= 10: the digits of x, the lowest first,
\* none for 0.  They are taken four at a time.
RECURSIVE DecimalChunks(_)
DecimalChunks(x) ==
  IF x = <<>> THEN <<>>
  ELSE With(BigDivRemSmall(x, 10000),
            LAMBDA t : <<t[Len(t)]>> \o DecimalChunks(BigNorm(SubSeq(t, 1, Len(t) - 1))))

DecimalDigitsOf(chunks) ==
  BigNorm([i \in 1..(4 * Len(chunks)) |->
             (chunks[((i - 1) \div 4) + 1] \div (10 ^ ((i - 1) % 4))) % 10])

DecimalDigits(x) == With(DecimalChunks(x), LAMBDA chunks : DecimalDigitsOf(chunks))

\* the parts of number_ as their decimal digits
BrokenUpDecimal(number_) ==
  [is_negative |-> number_.is_negative,
   integral |-> DecimalDigits(number_.integral),
   fractional |-> DecimalDigits(number_.fractional)]

\* %g: the trailing zero digits of a fractional part > 0 are skipped
TrailingZeros(fractional) ==
  CHOOSE z \in 0..(Len(fractional) - 1) :
    fractional[z + 1] # 0 /\ \A i \in 1..z : fractional[i] = 0

SkipTrailingZeros(fractional, count) ==
  [fractional |-> SubSeq(fractional, TrailingZeros(fractional) + 1, Len(fractional)),
   count |-> Sub32(count, TrailingZeros(fractional))]

\* while (len < PRINTF_FTOA_BUFFER_SIZE) { buf[len++] = (char)('0' + x % 10);
\*   if (!(x /= 10)) break; }: the digits of x, one digit for 0, as far as
\* the buffer has room
DigitCount(buf, digits) ==
  Min(PRINTF_FTOA_BUFFER_SIZE - Len(buf), Max(1, Len(digits)))

DigitsPut(buf, digits) ==
  buf \o [i \in 1..DigitCount(buf, digits) |-> DigitChars[BigDigit(digits, i) + 1]]

\* the loop of the fractional part also has --count in each round
FractionDigits(buf, fractional, count) ==
  [buf |-> DigitsPut(buf, fractional),
   count |-> Sub32(count, DigitCount(buf, fractional))]

\* while ((len < PRINTF_FTOA_BUFFER_SIZE) && (count-- > 0U)) buf[len++] = '0';
\* a count that wrapped below 0 is above every length
ExtraZeroCount(buf, count) ==
  IF count < 0 THEN PRINTF_FTOA_BUFFER_SIZE - Len(buf)
  ELSE Min(PRINTF_FTOA_BUFFER_SIZE - Len(buf), count)

ExtraZeros(buf, count) == buf \o [i \in 1..ExtraZeroCount(buf, count) |-> "0"]

\* the digits of the fractional part, the zeros up to the precision and
\* the decimal point
BrokenUpFractionZeros(t) == FtoaPut(ExtraZeros(t.buf, t.count), ".")

BrokenUpFractionPut(buf, s) ==
  BrokenUpFractionZeros(FractionDigits(buf, s.fractional, s.count))

BrokenUpFractionFrom(buf, s, flags) ==
  IF s.fractional # <<>> \/ FLAGS_ADAPT_EXP \notin flags \/ FLAGS_HASH \in flags
    THEN BrokenUpFractionPut(buf, s) ELSE buf

BrokenUpFraction(buf, number_, precision, flags) ==
  IF precision # 0
    THEN BrokenUpFractionFrom(buf,
           IF FLAGS_ADAPT_EXP \in flags /\ FLAGS_HASH \notin flags
              /\ number_.fractional # <<>>
             THEN SkipTrailingZeros(number_.fractional, precision)
             ELSE [fractional |-> number_.fractional, count |-> precision],
           flags)
  ELSE IF FLAGS_HASH \in flags THEN FtoaPut(buf, ".")
  ELSE buf

\* the digits of the integral part
IntegralDigits(buf, integral) == DigitsPut(buf, integral)

\* the width left for the digits: one column less for a sign
BrokenUpWidth(number_, width, flags) ==
  IF /\ FLAGS_LEFT \notin flags /\ FLAGS_ZEROPAD \in flags /\ width # 0
     /\ (number_.is_negative \/ FLAGS_PLUS \in flags \/ FLAGS_SPACE \in flags)
    THEN width - 1 ELSE width

\* the zeros up to the width, without the test of the capacity
FtoaZeroPadUnbounded(buf, width, flags) ==
  IF FLAGS_LEFT \notin flags /\ FLAGS_ZEROPAD \in flags /\ Len(buf) < width
    THEN buf \o [i \in 1..(width - Len(buf)) |-> "0"]
    ELSE buf

\* while ((len < width) && (len < PRINTF_FTOA_BUFFER_SIZE)) buf[len++] = '0';
FtoaZeroPad(buf, width, flags) ==
  IF /\ FLAGS_LEFT \notin flags /\ FLAGS_ZEROPAD \in flags
     /\ Len(buf) < Min(width, PRINTF_FTOA_BUFFER_SIZE)
    THEN buf \o [i \in 1..(Min(width, PRINTF_FTOA_BUFFER_SIZE) - Len(buf)) |-> "0"]
    ELSE buf

BrokenUpSign(buf, number_, flags) ==
  IF Len(buf) >= PRINTF_FTOA_BUFFER_SIZE THEN buf
  ELSE IF number_.is_negative THEN Append(buf, "-")
  ELSE IF FLAGS_PLUS \in flags THEN Append(buf, "+")
  ELSE IF FLAGS_SPACE \in flags THEN Append(buf, " ")
  ELSE buf

\* the scratch buffer goes to the sink; its length is recorded
ScratchOut(c, buf, width, flags) ==
  _out_rev([c EXCEPT !.scratch = Max(@, Len(buf))], buf, width, flags)

\* d is number_ as its decimal digits
BrokenUpPut(buf, d, precision, width, flags) ==
  BrokenUpSign(
    FtoaZeroPad(IntegralDigits(BrokenUpFraction(buf, d, precision, flags), d.integral),
                BrokenUpWidth(d, width, flags), flags),
    d, flags)

BrokenUpDigits(buf, number_, precision, width, flags) ==
  With(BrokenUpDecimal(number_), LAMBDA d : BrokenUpPut(buf, d, precision, width, flags))

sprint_broken_up_decimal(c, number_, precision, width, flags, buf) ==
  With(BrokenUpDigits(buf, number_, precision, width, flags),
       LAMBDA b : ScratchOut([c EXCEPT !.fp = Append(@, [fn |-> "sprint_broken_up_decimal",
                                                        precision |-> precision,
                                                        integral |-> number_.integral,
                                                        fractional |-> number_.fractional])],
                             b, BrokenUpWidth(number_, width, flags), flags))

\* a decomposition is recorded in c.fp; a precision that is no index of
\* powers_of_10 made it read outside the table
Decomposed(c, fn, precision, number_) ==
  [c EXCEPT !.fp = Append(@, [fn |-> fn, precision |-> precision,
                              integral |-> number_.integral,
                              fractional |-> number_.fractional]),
            !.ub = @ \/ ~InTable(precision)]

SprintDecimalPut(c, value_, precision, width, flags, buf) ==
  sprint_broken_up_decimal(Decomposed(c, "get_components", precision, value_),
                           value_, precision, width, flags, buf)

sprint_decimal_number(c, number, precision, width, flags, buf, g) ==
  With(get_components(number, precision, g),
       LAMBDA value_ : SprintDecimalPut(c, value_, precision, width, flags, buf))

\* the decimal exponent of abs_number # 0, first estimate:
\* (int)(0.1760912590558 + exp2 * 0.301029995663981 + (conv.F - 1.5) * 0.289529654602168)
\* where conv.F is abs_number with its exponent dropped, in [1, 2)
Exp10Estimate(abs_number) ==
  DblToInt(DblAdd(DblAdd(Log10OfOneAndHalf,
                         DblMul(DblOfInt(get_exp2(abs_number)), Log10Of2)),
                  DblMul(DblSub(Dbl(FALSE, abs_number.m, 0 - (DBL_MANT_DIG - 1)), OneAndHalf),
                         Log10Slope)))

\* exp2 = (int)(exp10 * 3.321928094887362 + 0.5)
Exp2Of(exp10) == DblToInt(DblAdd(DblMul(DblOfInt(exp10), Log2Of10), Half))

\* z = exp10 * 2.302585092994046 - exp2 * 0.6931471805599453
ExpZ(exp10) ==
  DblSub(DblMul(DblOfInt(exp10), Ln10), DblMul(DblOfInt(Exp2Of(exp10)), Ln2))

\* 1 + 2 * z / (2 - z + (z2 / (6 + (z2 / (10 + z2 / 14))))), from the
\* innermost quotient outwards
ExpFraction14(z2) == DblDiv(z2, DblOfInt(14))

ExpFraction10(z2, q) == DblDiv(z2, DblAdd(DblOfInt(10), q))

ExpFraction6(z2, q) == DblDiv(z2, DblAdd(DblOfInt(6), q))

ExpFraction2(z, q) ==
  DblAdd(DblOfInt(1), DblDiv(DblMul(DblOfInt(2), z), DblAdd(DblSub(DblOfInt(2), z), q)))

ExpFraction(z, z2) ==
  With(ExpFraction14(z2),
       LAMBDA q14 : With(ExpFraction10(z2, q14),
         LAMBDA q10 : With(ExpFraction6(z2, q10),
           LAMBDA q6 : ExpFraction2(z, q6))))

\* conv.F: 2^exp2 times exp(z), the approximation of 10^exp10
Pow10Approx(exp10) ==
  With(ExpZ(exp10),
       LAMBDA z : With(DblMul(z, z),
         LAMBDA z2 : DblMul(Dbl(FALSE, BigShl(<<1>>, DBL_MANT_DIG - 1),
                                Exp2Of(exp10) - (DBL_MANT_DIG - 1)),
                            ExpFraction(z, z2))))

\* correct for rounding errors: if (abs_number < conv.F) { exp10--; conv.F /= 10; }
Exp10CorrectOf(abs_number, exp10, F) ==
  IF DblLt(abs_number, F)
    THEN [exp10 |-> exp10 - 1, F |-> DblDiv(F, DblOfInt(10))]
    ELSE [exp10 |-> exp10, F |-> F]

Exp10Correct(abs_number, exp10, F) ==
  With(F, LAMBDA f : Exp10CorrectOf(abs_number, exp10, f))

\* exp10 and the normalization factor; for 0.0 the factor is not set and
\* not read
Exp10Of(abs_number) ==
  IF DblIsZero(abs_number) THEN [exp10 |-> 0, F |-> abs_number]
  ELSE With(Exp10Estimate(abs_number),
            LAMBDA exp10 : Exp10Correct(abs_number, exp10, Pow10Approx(exp10)))

\* the locals of sprint_exponential_number are the record x: negative,
\* abs_number, exp10, F (conv.F), precision, flags,
\* fall_back_to_decimal_only_mode and decimal_part_components

\* if (flags & FLAGS_ADAPT_EXP): the mode and the precision of %g
ExpAdaptPrecision(precision, exp10, fall_back) ==
  IF fall_back
    THEN (IF precision - 1 - exp10 > 0 THEN precision - 1 - exp10 ELSE 0)
    ELSE (IF precision - 1 > 0 THEN precision - 1 ELSE 0)

ExpFallBack(precision, exp10, flags) ==
  /\ FLAGS_ADAPT_EXP \in flags
  /\ exp10 >= 0 - 4
  /\ exp10 < (IF precision = 0 THEN 1 ELSE precision)

ExpStart(number, precision, flags, t) ==
  [negative |-> number.neg, abs_number |-> [number EXCEPT !.neg = FALSE],
   exp10 |-> t.exp10, F |-> t.F,
   fall_back_to_decimal_only_mode |-> ExpFallBack(precision, t.exp10, flags),
   precision |-> IF FLAGS_ADAPT_EXP \in flags
                   THEN ExpAdaptPrecision(precision, t.exp10,
                                          ExpFallBack(precision, t.exp10, flags))
                   ELSE precision,
   flags |-> IF FLAGS_ADAPT_EXP \in flags THEN flags \cup {FLAGS_PRECISION} ELSE flags]

\* normalization: the power of ten of the table where it has one
ExpNormalization(x) ==
  [raw_factor |-> IF PRINTF_ABS(x.exp10) < PRINTF_MAX_PRECOMPUTED_POWER_OF_10
                    THEN powers_of_10[PRINTF_ABS(x.exp10) + 1] ELSE x.F,
   multiply |-> x.exp10 < 0 /\ PRINTF_ABS(x.exp10) < PRINTF_MAX_PRECOMPUTED_POWER_OF_10]

ExpDecomposed(x) ==
  IF x.fall_back_to_decimal_only_mode \/ x.exp10 = 0
    THEN "get_components" ELSE "get_normalized_components"

ExpComponents(x, g) ==
  IF x.fall_back_to_decimal_only_mode \/ x.exp10 = 0
    THEN get_components([x.abs_number EXCEPT !.neg = x.negative], x.precision, g)
    ELSE get_normalized_components(x.negative, x.precision, x.abs_number,
                                   ExpNormalization(x), g)

\* account for roll-over; y is x with its decimal_part_components
ExpRollOver(y, g) ==
  IF y.fall_back_to_decimal_only_mode
    THEN IF /\ FLAGS_ADAPT_EXP \in y.flags /\ y.exp10 >= 0 - 1
            /\ DblEq(DblOfBig(y.decimal_part_components.integral),
                     PowerOf10(y.exp10 + 1, g))
           THEN [y EXCEPT !.exp10 = @ + 1, !.precision = Dec32(@)]
           ELSE y
  ELSE IF ~BigLt(y.decimal_part_components.integral, <<10>>)
    THEN [y EXCEPT !.exp10 = @ + 1,
                   !.decimal_part_components.integral = <<1>>,
                   !.decimal_part_components.fractional = <<>>]
  ELSE y

ExpWithComponents(x, number_) ==
  [negative |-> x.negative, abs_number |-> x.abs_number, exp10 |-> x.exp10,
   F |-> x.F, fall_back_to_decimal_only_mode |-> x.fall_back_to_decimal_only_mode,
   precision |-> x.precision, flags |-> x.flags,
   decimal_part_components |-> number_]

\* the width of an exponent part that always has room for three digits
exp10_part_width_wide(y) ==
  IF y.fall_back_to_decimal_only_mode THEN 0 ELSE 5

exp10_part_width(y) ==
  IF y.fall_back_to_decimal_only_mode THEN 0
  ELSE IF y.exp10 < 100 /\ y.exp10 > 0 - 100 THEN 4
  ELSE 5

decimal_part_width(y, width) ==
  IF FLAGS_LEFT \in y.flags /\ exp10_part_width(y) # 0 THEN 0
  ELSE IF width > exp10_part_width(y) THEN width - exp10_part_width(y)
  ELSE 0

\* while (idx - start_idx < width) out(' ', buffer, idx++, maxlen);
ExpRightPad(c, start_idx, width) ==
  IF c.idx - start_idx < width
    THEN OutAll(c, Spaces(width - (c.idx - start_idx)))
    ELSE c

\* the exponent part: 'e', the sign and at least two digits, the padding
ExpDigits(c, y) ==
  _ntoa(OutIdx(c, IF FLAGS_UPPERCASE \in y.flags THEN "E" ELSE "e"),
        FromInt(PRINTF_ABS(y.exp10)), y.exp10 < 0, BASE_DECIMAL, 0,
        exp10_part_width(y) - 1, {FLAGS_ZEROPAD, FLAGS_PLUS})

ExpPart(c, y, start_idx, width) ==
  IF y.fall_back_to_decimal_only_mode THEN c
  ELSE IF FLAGS_LEFT \in y.flags
    THEN With(ExpDigits(c, y), LAMBDA d : ExpRightPad(d, start_idx, width))
  ELSE ExpDigits(c, y)

SprintExponentialOut(c, y, width, buf) ==
  With(sprint_broken_up_decimal(c, y.decimal_part_components, y.precision,
                                decimal_part_width(y, width), y.flags, buf),
       LAMBDA d : ExpPart(d, y, c.idx, width))

SprintExponentialPut(c, x, number_, width, buf, g) ==
  With(ExpRollOver(ExpWithComponents(x, number_), g),
       LAMBDA y : SprintExponentialOut(Decomposed(c, ExpDecomposed(x), x.precision, number_),
                                       y, width, buf))

SprintExponentialFrom(c, x, width, buf, g) ==
  With(ExpComponents(x, g), LAMBDA number_ : SprintExponentialPut(c, x, number_, width, buf, g))

sprint_exponential_number(c, number, precision, width, flags, buf, g) ==
  With(ExpStart(number, precision, flags, Exp10Of([number EXCEPT !.neg = FALSE])),
       LAMBDA x : SprintExponentialFrom(c, x, width, buf, g))

\* while ((len < PRINTF_FTOA_BUFFER_SIZE) && (precision > PRINTF_MAX_SUPPORTED_PRECISION))
\*   { buf[len++] = '0'; precision--; }
\* a precision that wrapped below 0 is above every length
LimitCount(precision) ==
  IF precision < 0 THEN PRINTF_FTOA_BUFFER_SIZE
  ELSE Min(PRINTF_FTOA_BUFFER_SIZE, Max(0, precision - PRINTF_MAX_SUPPORTED_PRECISION))

LimitPrecision(buf, precision) ==
  [buf |-> buf \o [i \in 1..LimitCount(precision) |-> "0"],
   precision |-> Sub32(precision, LimitCount(precision))]

SprintFinite(c, value, p, width, flags, prefer_exponential, g) ==
  IF prefer_exponential
    THEN sprint_exponential_number(c, value, p.precision, width, flags, p.buf, g)
    ELSE sprint_decimal_number(c, value, p.precision, width, flags, p.buf, g)

sprint_floating_point(c, value, precision, width, flags, prefer_exponential, g) ==
  CASE value.cls = "nan" -> _out_rev(c, <<"n", "a", "n">>, width, flags)
    [] value.cls = "inf" /\ value.neg ->
         _out_rev(c, <<"f", "n", "i", "-">>, width, flags)
    [] value.cls = "inf" /\ ~value.neg ->
         _out_rev(c, IF FLAGS_PLUS \in flags THEN <<"f", "n", "i", "+">>
                                            ELSE <<"f", "n", "i">>,
                  width, flags)
    [] value.cls = "fin" /\ ~prefer_exponential
       /\ (DblLt(PRINTF_FLOAT_NOTATION_THRESHOLD, value)
           \/ DblLt(value, DblNeg(PRINTF_FLOAT_NOTATION_THRESHOLD))) ->
         sprint_exponential_number(c, value, precision, width, flags, <<>>, g)
    [] OTHER ->
         SprintFinite(c, value,
                      LimitPrecision(<<>>, IF FLAGS_PRECISION \in flags THEN precision
                                           ELSE PRINTF_DEFAULT_FLOAT_PRECISION),
                      width, flags, prefer_exponential, g)

\* case 'f' 'F' 'e' 'E' 'g' 'G'
ConvFloatStep(c, g, pg) ==
  LET ch == Cur(c)
      f1 == IF ch \in {"g", "G"} THEN c.flags \cup {FLAGS_ADAPT_EXP} ELSE c.flags
      flags == IF ch \in {"F", "E", "G"} THEN f1 \cup {FLAGS_UPPERCASE} ELSE f1
      d == [ArgNext(c, "double") EXCEPT !.flags = flags]
      e == sprint_floating_point(d, ArgValue(c, "double", g), c.precision,
                                 c.width, flags, ch \notin {"f", "F"}, pg)
  IN  [e EXCEPT !.pos = @ + 1, !.pc = "loop"]

\* case '%'
ConvPercentStep(c) == [OutIdx(c, "%") EXCEPT !.pos = @ + 1, !.pc = "loop"]

\* a default case that emits the '%' in front of the character
ConvDefaultStepPercent(c) ==
  [OutIdx(OutIdx(c, "%"), Cur(c)) EXCEPT !.pos = @ + 1, !.pc = "loop"]

\* default: out(*format, buffer, idx++, maxlen); format++;
ConvDefaultStep(c) == [OutIdx(c, Cur(c)) EXCEPT !.pos = @ + 1, !.pc = "loop"]

\* a termination that returns the number of characters stored
TerminateStepStored(c) ==
  LET at == IF Lt64(FromInt(c.idx), c.maxlen)
              THEN FromInt(c.idx) ELSE SizeDec(abi, c.maxlen)
      stored == IF Lt64(FromInt(c.idx), c.maxlen) THEN c.idx
                ELSE IF IsZero64(c.maxlen) THEN 0 ELSE ToNat(Dec64(c.maxlen))
  IN  [Out(c, NUL, at) EXCEPT !.ret = stored, !.pc = "done"]

\* a termination at the position of the count, whatever the limit is
TerminateStepAtCount(c) ==
  [Out(c, NUL, FromInt(c.idx)) EXCEPT !.ret = c.idx, !.pc = "done"]

\* the termination and the return value
TerminateStep(c) ==
  LET at == IF Lt64(FromInt(c.idx), c.maxlen)
              THEN FromInt(c.idx) ELSE SizeDec(abi, c.maxlen)
  IN  [Out(c, NUL, at) EXCEPT !.ret = c.idx, !.pc = "done"]

---------------------------------------------------------------------------
(* The calls the model makes: format strings and argument lists.           *)

MaxCap == 6

MaxWidth == 34

MaxOverread == 2

\* the size of the destination given to utl_sprintf
DestSize == 48

IntArg(i) == [ty |-> "int", v |-> FromInt(i)]

UIntArg(v) == [ty |-> "uint", v |-> v]

LongArg(v) == [ty |-> "long", v |-> v]

LLongArg(v) == [ty |-> "llong", v |-> v]

StrArg(p) == [ty |-> "str", v |-> p]

PtrArg(v) == [ty |-> "ptr", v |-> v]

\* 2^32 and 2^40 + 5
Two32 == <<0, 1, 0, 0>>

Two40 == <<0, 256, 0, 5>>

\* the decimal digits of n < 100
Dec(n) ==
  IF n < 10 THEN <<DigitChars[n + 1]>>
  ELSE <<DigitChars[(n \div 10) + 1], DigitChars[(n % 10) + 1]>>

\* %[flags][width][.precision][length]conv
Tok(flags, width, precision, length, conv) ==
  <<"%">> \o flags \o width \o precision \o length \o conv

Calls(fmts, vas) == {[fmt |-> f, va |-> a] : f \in fmts, a \in vas}

\* literal text, tokens the format string ends in, unknown conversion letters
PlainFormats ==
  { <<>>, <<"a">>, <<"a", "b">>, <<"a", "%", "%", "b">>,
    <<"%">>, <<"a", "%">>, <<"%", "5">>, <<"%", ".">>, <<"%", "l">>,
    <<"%", "-">>, <<"%", "0">>, <<"%", "l", "l">>, <<"%", "h">>,
    <<"%", ".", "3">>, <<"%", "#", "4", ".", "2", "h", "h">>,
    <<"%", "q">>, <<"%", "5", "q">>, <<"%", "l", "q">>, <<"%", "-", "q">>,
    <<"%", ".", "2", "q">>, <<"%", "#", "k">>, <<"%", "L">>, <<"a", "%", "q", "b">> }

PlainCalls == Calls(PlainFormats, {<<>>})

\* an unknown letter, or the end of the string, with arguments to take
UnknownCalls ==
  Calls({ <<"%", "q", "%", "d">>, <<"%", "k", "%", "d">>, <<"%", "y">>,
          <<"%", "l", "q", "%", "d">>, <<"%", "0", "5", "q", "%", "d">>,
          <<"%">>, <<"%", "l">> },
        {<<IntArg(42)>>})
  \cup Calls({ <<"%", "*", "q", "%", "d">>, <<"%", ".", "*", "q", "%", "d">>,
               <<"%", "*">>, <<"%", ".", "*">> },
             {<<IntArg(3), IntArg(42)>>})

IntValues ==
  {FromInt(0), FromInt(1), FromInt(0 - 1), FromInt(42), FromInt(0 - 42),
   FromInt(255), FromInt(300), FromInt(70000), INT_MAX, INT_MIN}

\* the values of long long; of long where long has 64 bits
LLongValues ==
  {Zero64, FromInt(42), FromInt(0 - 42), Two32, Two40, LLONG_MAX, LLONG_MIN,
   ULLONG_MAX}

LongValues == IF SizeofLong(abi) = 8 THEN LLongValues ELSE IntValues

IntConvs == {"d", "i", "u", "x", "X", "o", "b"}

\* the integer conversions with default flags and each length modifier
IntegerCalls ==
  UNION { Calls({Tok(<<>>, <<>>, <<>>, l, <<cv>>) : l \in {<<>>, <<"h">>, <<"h", "h">>}},
                {<<IntArg(0)>>} \cup {<<[ty |-> "int", v |-> v]>> : v \in IntValues})
          \cup Calls({Tok(<<>>, <<>>, <<>>, <<"l">>, <<cv>>)},
                     {<<LongArg(v)>> : v \in LongValues})
          \cup Calls({Tok(<<>>, <<>>, <<>>, <<"l", "l">>, <<cv>>)},
                     {<<LLongArg(v)>> : v \in LLongValues})
          \cup Calls({Tok(<<>>, <<>>, <<>>, l, <<cv>>) : l \in {<<"z">>, <<"t">>}},
                     IF SizeofPtr(abi) = SizeofLong(abi)
                       THEN {<<LongArg(v)>> : v \in LongValues}
                       ELSE {<<LLongArg(v)>> : v \in LLongValues})
          \cup Calls({Tok(<<>>, <<>>, <<>>, <<"j">>, <<cv>>)},
                     IF SizeofLongLong(abi) = SizeofLong(abi)
                       THEN {<<LongArg(v)>> : v \in LongValues}
                       ELSE {<<LLongArg(v)>> : v \in LLongValues})
        : cv \in IntConvs }

\* %0Wd, %+0Wd, % 0Wd and %Wd
ZeroPadCalls ==
  Calls({Tok(f, Dec(w), <<>>, <<>>, <<"d">>) :
           f \in {<<"0">>, <<"+", "0">>, <<" ", "0">>, <<>>}, w \in 1..MaxWidth},
        {<<IntArg(42)>>, <<IntArg(0 - 42)>>, <<IntArg(0)>>})

\* the alternate form, with and without zero padding, width and precision
HashCalls ==
  Calls({Tok(f, w, p, <<>>, <<cv>>) :
           f \in {<<>>, <<"#">>, <<"#", "0">>, <<"#", "-">>},
           w \in {<<>>, <<"6">>},
           p \in {<<>>, <<".">>, <<".", "4">>},
           cv \in {"x", "X", "o", "b"}},
        {<<IntArg(0)>>, <<IntArg(255)>>, <<IntArg(8)>>})

Hello == Ptr(<<"h", "e", "l", "l", "o">>)

StringCalls ==
  Calls({Tok(f, w, p, <<>>, <<"s">>) :
           f \in {<<>>, <<"-">>, <<"0">>},
           w \in {<<>>, <<"3">>, <<"8">>},
           p \in {<<>>, <<".">>, <<".", "0">>, <<".", "2">>, <<".", "9">>}},
        {<<StrArg(NULL)>>, <<StrArg(Ptr(<<>>))>>, <<StrArg(Hello)>>})
  \cup Calls({<<"%", "*", "s">>, <<"%", ".", "*", "s">>},
             {<<IntArg(w), StrArg(p)>> : w \in {8, 0 - 8, 2}, p \in {NULL, Hello}})

PtrValues ==
  {Zero64, FromInt(4660), <<0, 0, 57005, 48879>>}
  \cup IF SizeofPtr(abi) = 8 THEN {<<0, 32767, 4660, 22136>>} ELSE {}

PointerCalls ==
  Calls({Tok(f, w, p, <<>>, <<"p">>) :
           f \in {<<>>, <<"-">>, <<"0">>, <<"#">>, <<"+">>},
           w \in {<<>>, <<"4">>, <<"2", "0">>},
           p \in {<<>>, <<".", "3">>}},
        {<<PtrArg(v)>> : v \in PtrValues})
  \cup Calls({<<"%", "p", "%", "d">>, <<"%", "p", " ", "%", "x">>},
             {<<PtrArg(v), IntArg(42)>> : v \in PtrValues})
  \cup Calls({<<"%", "p", "%", "p">>},
             {<<PtrArg(v), PtrArg(FromInt(4660))>> : v \in PtrValues})

CharCalls ==
  Calls({<<"%", "c">>, <<"%", "3", "c">>, <<"%", "-", "3", "c">>, <<"a", "%", "c", "b">>},
        {<<IntArg(65)>>, <<IntArg(0)>>, <<IntArg(120)>>})

FloatCalls ==
  Calls({Tok(f, w, <<>>, <<>>, <<cv>>) :
           f \in {<<>>, <<"+">>, <<"-">>}, w \in {<<>>, <<"6">>},
           cv \in {"f", "F", "e", "E", "g", "G"}},
        {<<[ty |-> "double", v |-> NaN]>>, <<[ty |-> "double", v |-> Inf(FALSE)]>>,
         <<[ty |-> "double", v |-> Inf(TRUE)]>>})

\* several tokens in one format string
MixedCalls ==
  Calls({<<"%", "d", " ", "%", "s">>}, {<<IntArg(0 - 7), StrArg(Hello)>>})
  \cup Calls({<<"%", "*", "d">>, <<"%", "-", "*", "d">>, <<"%", "0", "*", "d">>,
              <<"%", ".", "*", "d">>},
             {<<IntArg(w), IntArg(v)>> : w \in {5, 0 - 5, 0}, v \in {42, 0 - 42}})
  \cup Calls({<<"%", "*", "d">>, <<"%", ".", "*", "d">>},
             {<<[ty |-> "int", v |-> INT_MIN], IntArg(42)>>})
  \cup Calls({<<"%", "*", ".", "*", "l", "l", "d", "%", "c">>},
             {<<IntArg(6), IntArg(4), LLongArg(Two32), IntArg(65)>>})
  \cup Calls({<<"%", "s", "%", "f", "%", "p", "%", "u">>},
             {<<StrArg(Hello), [ty |-> "double", v |-> NaN],
                PtrArg(FromInt(4660)), [ty |-> "uint", v |-> UINT_MAX]>>})

\* a call whose arguments are not of the types its conversions read
MismatchedCalls ==
  Calls({<<"%", "s", "=", "%", "x">>}, {<<IntArg(0 - 7), StrArg(Hello)>>})

\* the calls made while another call is running
ConcurrentCalls ==
  Calls({<<"%", "d", " ", "%", "s">>}, {<<IntArg(0 - 7), StrArg(Hello)>>})
  \cup Calls({<<"%", "c", "%", "%">>}, {<<IntArg(65)>>})

DoubleArg(x) == [ty |-> "double", v |-> x]

DoubleCalls(fmts, values) == Calls(fmts, {<<DoubleArg(x)>> : x \in values})

FixedFormats ==
  {<<"%", "f">>,
   <<"%", ".", "0", "f">>,
   <<"%", ".", "1", "f">>,
   <<"%", ".", "2", "f">>,
   <<"%", ".", "3", "f">>,
   <<"%", "+", ".", "1", "f">>,
   <<"%", "0", "8", ".", "2", "f">>,
   <<"%", "-", "8", ".", "1", "f">>,
   <<"%", " ", ".", "1", "f">>,
   <<"%", "#", ".", "0", "f">>}

\* 0.0, 0.5, 1.5, 2.5, 0.25, 0.75, 0.125, 0.375, 0.35, 0.15, 0.45, 0.95, 0.05, 1.0, -1.5, -0.35, 3.14159, 42.0, 99.5, 0.999, 9.995, 123456.789
FixedValues ==
  {Dbl(FALSE, <<>>, 0),
   Dbl(FALSE, <<0, 0, 0, 128>>, -53),
   Dbl(FALSE, <<0, 0, 0, 192>>, -52),
   Dbl(FALSE, <<0, 0, 0, 160>>, -51),
   Dbl(FALSE, <<0, 0, 0, 128>>, -54),
   Dbl(FALSE, <<0, 0, 0, 192>>, -53),
   Dbl(FALSE, <<0, 0, 0, 128>>, -55),
   Dbl(FALSE, <<0, 0, 0, 192>>, -54),
   Dbl(FALSE, <<26214, 19660, 6553, 179>>, -54),
   Dbl(FALSE, <<13107, 26214, 19660, 153>>, -55),
   Dbl(FALSE, <<19661, 6553, 13107, 230>>, -54),
   Dbl(FALSE, <<26214, 19660, 6553, 243>>, -53),
   Dbl(FALSE, <<6554, 13107, 26214, 204>>, -57),
   Dbl(FALSE, <<0, 0, 0, 128>>, -52),
   Dbl(TRUE, <<0, 0, 0, 192>>, -52),
   Dbl(TRUE, <<26214, 19660, 6553, 179>>, -54),
   Dbl(FALSE, <<1646, 24631, 2023, 201>>, -51),
   Dbl(FALSE, <<0, 0, 0, 168>>, -47),
   Dbl(FALSE, <<0, 0, 0, 199>>, -46),
   Dbl(FALSE, <<1835, 12845, 24379, 255>>, -53),
   Dbl(FALSE, <<2621, 18350, 30146, 159>>, -49),
   Dbl(FALSE, <<30409, 16252, 4146, 241>>, -36)}

FixedCalls == DoubleCalls(FixedFormats, FixedValues)

ExponentialFormats ==
  {<<"%", "e">>,
   <<"%", ".", "0", "e">>,
   <<"%", ".", "1", "e">>,
   <<"%", ".", "3", "E">>,
   <<"%", "1", "2", ".", "2", "e">>,
   <<"%", "-", "1", "2", ".", "2", "e">>,
   <<"%", "0", "1", "2", ".", "2", "e">>,
   <<"%", "+", "e">>,
   <<"%", "#", ".", "0", "e">>}

\* 0.0, 1.0, 1250.0, 9.5, 9.99, 0.00012345, -1e-05, 123456789.0, 10000000000.0, 1e+20, 1e-20, 1e+100, 1e-100, -2.5e+17
ExponentialValues ==
  {Dbl(FALSE, <<>>, 0),
   Dbl(FALSE, <<0, 0, 0, 128>>, -52),
   Dbl(FALSE, <<0, 0, 8192, 156>>, -42),
   Dbl(FALSE, <<0, 0, 0, 152>>, -49),
   Dbl(FALSE, <<5243, 3932, 27525, 159>>, -49),
   Dbl(FALSE, <<23656, 22987, 14637, 129>>, -65),
   Dbl(TRUE, <<26865, 4550, 25302, 167>>, -69),
   Dbl(FALSE, <<0, 10240, 15569, 235>>, -26),
   Dbl(FALSE, <<0, 16384, 380, 149>>, -19),
   Dbl(FALSE, <<3136, 29035, 15477, 173>>, 14),
   Dbl(FALSE, <<16931, 6436, 29316, 188>>, -119),
   Dbl(FALSE, <<17277, 19241, 9908, 146>>, 280),
   Dbl(FALSE, <<1328, 18716, 31931, 223>>, -385),
   Dbl(TRUE, <<18432, 20125, 1461, 222>>, 5)}

ExponentialCalls == DoubleCalls(ExponentialFormats, ExponentialValues)

AdaptiveFormats ==
  {<<"%", "g">>,
   <<"%", "G">>,
   <<"%", ".", "0", "g">>,
   <<"%", ".", "1", "g">>,
   <<"%", ".", "2", "g">>,
   <<"%", ".", "3", "g">>,
   <<"%", ".", "1", "0", "g">>,
   <<"%", "#", "g">>,
   <<"%", "1", "0", "g">>,
   <<"%", "-", "1", "0", "g">>}

\* 0.0, 1.0, 100000.0, 1000000.0, 0.0001, 1e-05, 123456.0, 1234567.0, 0.5, 9.5, 99.5, 999999.5, 10000000000.0, -1.5e-07, 0.00012345, 100.0
AdaptiveValues ==
  {Dbl(FALSE, <<>>, 0),
   Dbl(FALSE, <<0, 0, 0, 128>>, -52),
   Dbl(FALSE, <<0, 0, 10240, 195>>, -36),
   Dbl(FALSE, <<0, 0, 4608, 244>>, -33),
   Dbl(FALSE, <<17197, 22072, 23435, 209>>, -66),
   Dbl(FALSE, <<26865, 4550, 25302, 167>>, -69),
   Dbl(FALSE, <<0, 0, 4096, 241>>, -36),
   Dbl(FALSE, <<0, 0, 23068, 150>>, -32),
   Dbl(FALSE, <<0, 0, 0, 128>>, -53),
   Dbl(FALSE, <<0, 0, 0, 152>>, -49),
   Dbl(FALSE, <<0, 0, 0, 199>>, -46),
   Dbl(FALSE, <<0, 0, 4604, 244>>, -33),
   Dbl(FALSE, <<0, 16384, 380, 149>>, -19),
   Dbl(TRUE, <<886, 26651, 2007, 161>>, -75),
   Dbl(FALSE, <<23656, 22987, 14637, 129>>, -65),
   Dbl(FALSE, <<0, 0, 0, 200>>, -46)}

AdaptiveCalls == DoubleCalls(AdaptiveFormats, AdaptiveValues)

PreciseFormats ==
  {<<"%", ".", "1", "7", "f">>,
   <<"%", ".", "1", "8", "f">>,
   <<"%", ".", "2", "0", "f">>,
   <<"%", ".", "3", "0", "f">>,
   <<"%", ".", "5", "0", "f">>,
   <<"%", ".", "1", "7", "e">>,
   <<"%", ".", "1", "8", "e">>,
   <<"%", ".", "4", "0", "e">>,
   <<"%", ".", "1", "7", "g">>,
   <<"%", ".", "1", "8", "g">>,
   <<"%", ".", "2", "0", "g">>,
   <<"%", ".", "4", "0", "g">>}

\* 1.0, 1.5, 0.0001, 10000000000.0, -0.1
PreciseValues ==
  {Dbl(FALSE, <<0, 0, 0, 128>>, -52),
   Dbl(FALSE, <<0, 0, 0, 192>>, -52),
   Dbl(FALSE, <<17197, 22072, 23435, 209>>, -66),
   Dbl(FALSE, <<0, 16384, 380, 149>>, -19),
   Dbl(TRUE, <<6554, 13107, 26214, 204>>, -56)}

PreciseCalls == DoubleCalls(PreciseFormats, PreciseValues)

WideFormats ==
  {<<"%", "0", "4", "0", "f">>,
   <<"%", "+", "0", "4", "0", ".", "3", "f">>,
   <<"%", "-", "4", "0", ".", "2", "f">>,
   <<"%", "4", "0", "f">>,
   <<"%", "0", "4", "0", "e">>,
   <<"%", "0", "4", "0", "g">>,
   <<"%", "0", "3", "2", ".", "1", "f">>,
   <<"%", "+", "0", "3", "3", ".", "1", "f">>}

\* 1.5, -1.5, 10000000000.0
WideValues ==
  {Dbl(FALSE, <<0, 0, 0, 192>>, -52),
   Dbl(TRUE, <<0, 0, 0, 192>>, -52),
   Dbl(FALSE, <<0, 16384, 380, 149>>, -19)}

WideCalls == DoubleCalls(WideFormats, WideValues)

\* '*' precision with a double
StarDoubleCalls ==
  Calls({<<"%", ".", "*", "f">>, <<"%", ".", "*", "e">>, <<"%", ".", "*", "g">>},
        {<<IntArg(p), DoubleArg(x)>> : p \in {0 - 1, 0, 2, 17, 18, 100}, x \in WideValues})

\* values just below the middle of two neighbours of the last digit kept
\* 5e-07, 5e-08
TieFormats == {<<"%", "f">>, <<"%", ".", "7", "f">>, <<"%", ".", "7", "e">>}

TieValues ==
  {Dbl(FALSE, <<28045, 16747, 7134, 134>>, -73),
   Dbl(FALSE, <<12104, 13689, 24522, 214>>, -77)}

TieCalls == DoubleCalls(TieFormats, TieValues)

\* a conversion between literal text
\* 0.35, 1000000.0
TextCalls ==
  DoubleCalls({<<"x", "=", "%", ".", "1", "f", ";">>, <<"<", "%", "g", ">">>},
              {Dbl(FALSE, <<26214, 19660, 6553, 179>>, -54),
               Dbl(FALSE, <<0, 0, 4608, 244>>, -33)})

\* integers whose digits, padding and prefix fill the scratch buffer
ScratchCalls ==
  Calls({<<"%", "0", "4", "0", "d">>, <<"%", "+", "0", "4", "0", "d">>,
         <<"%", ".", "4", "0", "d">>, <<"%", "#", "0", "4", "0", "x">>,
         <<"%", "#", ".", "4", "0", "o">>, <<"%", "#", ".", "3", "2", "x">>,
         <<"%", "0", "3", "2", "d">>, <<"%", "#", "0", "3", "2", "b">>,
         <<"%", "3", "3", "d">>, <<"%", "-", "4", "0", "d">>},
        {<<IntArg(0 - 5)>>, <<IntArg(255)>>, <<IntArg(0)>>})

NumberCalls ==
  FixedCalls
  \cup ExponentialCalls
  \cup AdaptiveCalls
  \cup PreciseCalls
  \cup WideCalls
  \cup StarDoubleCalls
  \cup TieCalls
  \cup TextCalls
  \cup ScratchCalls

Pool ==
  PlainCalls \cup UnknownCalls \cup IntegerCalls \cup ZeroPadCalls
  \cup HashCalls \cup StringCalls \cup PointerCalls \cup CharCalls
  \cup FloatCalls \cup MixedCalls \cup MismatchedCalls

---------------------------------------------------------------------------
(* The state: call[t] is the frame of thread t's call, prev the completed  *)
(* first call of the behaviour once it is repeated, abi the platform.      *)

Running(t) == call[t].pc \notin {"idle", "done"}

\* the format and arguments of a call: any of the pool, or when a call has
\* returned, once more those of that call
Inputs(t) ==
  IF call[t].pc = "idle"
    THEN {[fmt |-> i.fmt, mem |-> Append(i.fmt, NUL), va |-> i.va] :
            i \in IF DOMAIN call = {1} THEN Pool ELSE ConcurrentCalls}
  ELSE IF call[t].pc = "done" /\ prev = <<>>
    THEN {[fmt |-> call[t].fmt, mem |-> call[t].mem, va |-> call[t].va]}
  ELSE {}

Enter(t, f) ==
  /\ call' = [call EXCEPT ![t] = f]
  /\ prev' = IF call[t].pc = "done" THEN <<call[t]>> ELSE prev
  /\ UNCHANGED <<abi, cpu>>

\* a repeated call goes through utl_sprintf or is the first call again
Again(t, entry, maxlen) ==
  call[t].pc = "done" => call[t].entry = entry /\ call[t].maxlen = maxlen

utl_sprintf(t) ==
  \E i \in Inputs(t) :
    Enter(t, NewFrame("utl_sprintf", "_out_buffer",
                      Ptr([k \in 1..DestSize |-> "?"]), SizeMax(abi),
                      i.fmt, i.mem, i.va))

utl_snprintf(t) ==
  \E i \in Inputs(t), count \in 0..MaxCap :
    /\ Again(t, "utl_snprintf", FromInt(count))
    /\ Enter(t, NewFrame("utl_snprintf", "_out_buffer",
                         Ptr([k \in 1..count |-> "?"]), FromInt(count),
                         i.fmt, i.mem, i.va))

\* the call that asks for the length: utl_snprintf(NULL, 0, format, ...),
\* and the call with a null destination and a capacity that is not 0
utl_snprintf_null(t) ==
  \E i \in Inputs(t), count \in {0, MaxCap} :
    /\ Again(t, "utl_snprintf_null", FromInt(count))
    /\ Enter(t, NewFrame("utl_snprintf_null", "_out_buffer", NULL, FromInt(count),
                         i.fmt, i.mem, i.va))

utl_printf(t) ==
  \E i \in Inputs(t) :
    /\ Again(t, "utl_printf", SizeMax(abi))
    /\ Enter(t, NewFrame("utl_printf", "_out_char", Ptr(<<"?">>), SizeMax(abi),
                         i.fmt, i.mem, i.va))

utl_fctprintf(t) ==
  \E i \in Inputs(t) :
    /\ Again(t, "utl_fctprintf", SizeMax(abi))
    /\ Enter(t, NewFrame("utl_fctprintf", "_out_fct", Ptr(<<"?">>), SizeMax(abi),
                         i.fmt, i.mem, i.va))

\* utl_vsprintf with the argument list of a caller: the calls with double
\* arguments and those that fill the scratch buffers
utl_vsprintf(t) ==
  \E i \in NumberCalls :
    /\ call[t].pc = "idle"
    /\ Enter(t, NewFrame("utl_vsprintf", "_out_buffer",
                         Ptr([k \in 1..DestSize |-> "?"]), SizeMax(abi),
                         i.fmt, Append(i.fmt, NUL), i.va))

StepSharedIdx(t, f) ==
  /\ call' = [u \in DOMAIN call |->
                IF u = t THEN f
                ELSE IF call[u].pc = "idle" THEN call[u]
                ELSE [call[u] EXCEPT !.idx = f.idx]]
  /\ UNCHANGED <<prev, abi, cpu>>

\* the frame steps; the rest is unchanged
Step(t, f) == call' = [call EXCEPT ![t] = f] /\ UNCHANGED <<prev, abi, cpu>>

\* the read position is inside the memory read so far
Mapped(t) == Running(t) /\ call[t].pos <= Len(call[t].mem)

\* The read position is behind the terminator and behind every byte read
\* so far: what *format yields is whatever the memory there holds.
JunkBytes == {NUL, "d", "%", "Z"}

OverRead(t) ==
  /\ Running(t) /\ call[t].pos > Len(call[t].mem)
  /\ \E b \in IF Len(call[t].mem) - (Len(call[t].fmt) + 1) < MaxOverread
                THEN JunkBytes ELSE {NUL} :
       Step(t, [call[t] EXCEPT !.mem = Append(@, b)])

CopyLiteral(t) ==
  /\ Mapped(t) /\ call[t].pc = "loop" /\ Cur(call[t]) \notin {NUL, "%"}
  /\ Step(t, CopyLiteralStep(call[t]))

BeginToken(t) ==
  /\ Mapped(t) /\ call[t].pc = "loop" /\ Cur(call[t]) = "%"
  /\ Step(t, BeginTokenStep(call[t]))

EvalFlags(t) ==
  /\ Mapped(t) /\ call[t].pc = "flags"
  /\ Step(t, EvalFlagsStep(call[t]))

\* what va_arg(va, kind) may yield where it is undefined: some value of the
\* register or stack slot read, the bits of a mismatched argument among them
Garbage(c, kind) ==
  IF ArgDefined(c, kind) THEN {Zero64}
  ELSE IF kind = "char*" THEN {NULL, Ptr(<<"?">>)}
  ELSE IF kind = "double" THEN {NaN, Inf(TRUE)}
  ELSE {Zero64, FromInt(77)}
       \cup (IF c.ap < Len(c.va) /\ c.va[c.ap + 1].ty \notin {"str", "double"}
               THEN {c.va[c.ap + 1].v} ELSE {})

EvalWidth(t) ==
  /\ Mapped(t) /\ call[t].pc = "width"
  /\ \E g \in (IF Cur(call[t]) = "*" THEN Garbage(call[t], "int") ELSE {Zero64}),
        o \in Overflows :
       Step(t, EvalWidthStep(call[t], g, o))

EvalPrecision(t) ==
  /\ Mapped(t) /\ call[t].pc = "precision"
  /\ \E g \in (IF Cur(call[t]) = "." /\ call[t].mem[call[t].pos + 1] = "*"
                 THEN Garbage([call[t] EXCEPT !.pos = @ + 1], "int") ELSE {Zero64}) :
       Step(t, EvalPrecisionStep(call[t], g))

EvalLength(t) ==
  /\ Mapped(t) /\ call[t].pc = "length"
  /\ Step(t, EvalLengthStep(call[t]))

ConvInteger(t) ==
  /\ Mapped(t) /\ call[t].pc = "spec" /\ Cur(call[t]) \in IntConvs
  /\ \E g \in Garbage(call[t], IntKind(call[t].flags)) :
       Step(t, ConvIntegerStep(call[t], g))

FloatConvs == {"f", "F", "e", "E", "g", "G"}

\* what a read of powers_of_10 outside the table may yield: some double,
\* here 1.0 or 1e17
TableGarbage == {powers_of_10[1], powers_of_10[NUM_DECIMAL_DIGITS_IN_INT64_T]}

ConvFloat(t) ==
  /\ Mapped(t) /\ call[t].pc = "spec" /\ Cur(call[t]) \in FloatConvs
  /\ \E g \in Garbage(call[t], "double"), pg \in TableGarbage :
       Step(t, ConvFloatStep(call[t], g, pg))

ConvChar(t) ==
  /\ Mapped(t) /\ call[t].pc = "spec" /\ Cur(call[t]) = "c"
  /\ \E g \in Garbage(call[t], "int") :
       Step(t, ConvCharStep(call[t], g))

ConvString(t) ==
  /\ Mapped(t) /\ call[t].pc = "spec" /\ Cur(call[t]) = "s"
  /\ \E g \in Garbage(call[t], "char*") :
       Step(t, ConvStringStep(call[t], g))

\* the second va_arg is made on the platforms where a pointer is not as
\* wide as long long, for a pointer that is not null
ConvPointer(t) ==
  /\ Mapped(t) /\ call[t].pc = "spec" /\ Cur(call[t]) = "p"
  /\ \E g1 \in Garbage(call[t], "void*") :
       \E g2 \in (IF SizeofPtr(abi) # SizeofLongLong(abi)
                     /\ ~IsZero64(Trunc32(ArgValue(call[t], "void*", g1)))
                    THEN Garbage(ArgNext(call[t], "void*"), "void*")
                    ELSE {Zero64}) :
         Step(t, ConvPointerStep(call[t], g1, g2))

ConvPercent(t) ==
  /\ Mapped(t) /\ call[t].pc = "spec" /\ Cur(call[t]) = "%"
  /\ Step(t, ConvPercentStep(call[t]))

ConvDefault(t) ==
  /\ Mapped(t) /\ call[t].pc = "spec"
  /\ Cur(call[t]) \notin IntConvs \cup FloatConvs \cup {"c", "s", "p", "%"}
  /\ Step(t, ConvDefaultStep(call[t]))

Terminate(t) ==
  /\ Mapped(t) /\ call[t].pc = "loop" /\ Cur(call[t]) = NUL
  /\ Step(t, TerminateStep(call[t]))

---------------------------------------------------------------------------
(* The Unix CPU ports, port_cpu.c and port_cpu_old.c: the critical section *)
(* of the HAL is a pthread mutex.  port is the file that is built, libc    *)
(* what its C library makes of a mutex that was never initialised, mutex   *)
(* the object (semaphore in port_cpu.c, port_cpu_cs in port_cpu_old.c),    *)
(* and task[t] the position of thread t; the thread Main calls the init    *)
(* of the driver before any other thread uses it.                          *)

MaxTasks == 3

MaxRounds == 2

Ports == {"port_cpu", "port_cpu_old"}

Main == 0

Nobody == 0 - 1

Tasks == 1..MaxTasks

\* pthread_mutex_t in static storage: all bytes zero, not initialised
ZeroMutex == [initialised |-> FALSE, owner |-> Nobody]

\* Locking or unlocking a mutex that was never initialised is undefined in
\* POSIX.  A C library whose PTHREAD_MUTEX_INITIALIZER is all zero takes the
\* object for an unlocked mutex; one that checks the signature of the
\* object returns EINVAL and leaves it alone.
ZeroMutexOutcomes == {"unlocked", "EINVAL"}

IsMutex(m) == m.initialised \/ libc = "unlocked"

\* pthread_mutex_init(&m, NULL)
pthread_mutex_init(m) == [initialised |-> TRUE, owner |-> Nobody]

\* whether pthread_mutex_lock(&m) can return
pthread_mutex_lock_returns(m) == IsMutex(m) => m.owner = Nobody

\* pthread_mutex_lock(&m) by the thread t, once it returns
pthread_mutex_lock(m, t) == IF IsMutex(m) THEN [m EXCEPT !.owner = t] ELSE m

\* pthread_mutex_unlock(&m) by the owner
pthread_mutex_unlock(m) == IF IsMutex(m) THEN [m EXCEPT !.owner = Nobody] ELSE m

\* port_cpu.c: lock, signal(SIGINT, ...), unlock; port_cpu_old.c:
\* pthread_mutex_init, signal(SIGINT, ...)
port_cpu_init ==
  /\ task[Main].pc = "reset"
  /\ mutex' = IF port = "port_cpu"
                THEN pthread_mutex_unlock(pthread_mutex_lock(mutex, Main))
                ELSE pthread_mutex_init(mutex)
  /\ task' = [t \in DOMAIN task |->
                IF t = Main THEN [task[t] EXCEPT !.pc = "run"]
                ELSE [task[t] EXCEPT !.pc = "out"]]
  /\ UNCHANGED <<port, libc, call, prev, abi>>

\* a thread calls critical_section_enter and is in pthread_mutex_lock
critical_section_enter_call(t) ==
  /\ task[t].pc = "out" /\ task[t].rounds < MaxRounds
  /\ task' = [task EXCEPT ![t].pc = "enter"]
  /\ UNCHANGED <<port, libc, mutex, call, prev, abi>>

\* pthread_mutex_lock(&semaphore); return 0;
port_cpu_critical_section_enter(t) ==
  /\ task[t].pc = "enter"
  /\ pthread_mutex_lock_returns(mutex)
  /\ mutex' = pthread_mutex_lock(mutex, t)
  /\ task' = [task EXCEPT ![t].pc = "in"]
  /\ UNCHANGED <<port, libc, call, prev, abi>>

\* pthread_mutex_unlock(&semaphore);
port_cpu_critical_section_leave(t) ==
  /\ task[t].pc = "in"
  /\ mutex' = pthread_mutex_unlock(mutex)
  /\ task' = [task EXCEPT ![t].pc = "out", ![t].rounds = @ + 1]
  /\ UNCHANGED <<port, libc, call, prev, abi>>

\* the state of the ports where the model is about the formatting alone
CpuReset ==
  /\ port = "port_cpu"
  /\ libc = "unlocked"
  /\ mutex = ZeroMutex
  /\ task = <<>>

Threads == DOMAIN call

Init ==
  /\ abi \in ABIs
  /\ call = [t \in {1} |-> Idle]
  /\ prev = <<>>
  /\ CpuReset

Next ==
  \E t \in Threads :
    \/ utl_sprintf(t)
    \/ utl_snprintf(t)
    \/ utl_snprintf_null(t)
    \/ utl_printf(t)
    \/ utl_fctprintf(t)
    \/ OverRead(t)
    \/ CopyLiteral(t)
    \/ BeginToken(t)
    \/ EvalFlags(t)
    \/ EvalWidth(t)
    \/ EvalPrecision(t)
    \/ EvalLength(t)
    \/ ConvInteger(t)
    \/ ConvFloat(t)
    \/ ConvChar(t)
    \/ ConvString(t)
    \/ ConvPointer(t)
    \/ ConvPercent(t)
    \/ ConvDefault(t)
    \/ Terminate(t)

Spec == Init /\ [][Next]_vars

\* Two threads, each making calls with a destination of its own; the steps
\* of the two calls interleave in any order.
InitConcurrent ==
  /\ abi \in ABIs
  /\ call = [t \in {1, 2} |-> Idle]
  /\ prev = <<>>
  /\ CpuReset

NextConcurrent ==
  \E t \in Threads :
    \/ utl_sprintf(t)
    \/ utl_snprintf(t)
    \/ CopyLiteral(t)
    \/ BeginToken(t)
    \/ EvalFlags(t)
    \/ EvalWidth(t)
    \/ EvalPrecision(t)
    \/ EvalLength(t)
    \/ ConvInteger(t)
    \/ ConvChar(t)
    \/ ConvString(t)
    \/ ConvPercent(t)
    \/ Terminate(t)

SpecConcurrent == InitConcurrent /\ [][NextConcurrent]_vars

\* The calls that format numbers into the scratch buffers.
InitNumber ==
  /\ abi \in ABIs
  /\ call = [t \in {1} |-> Idle]
  /\ prev = <<>>
  /\ CpuReset

NextNumber ==
  \E t \in Threads :
    \/ utl_vsprintf(t)
    \/ CopyLiteral(t)
    \/ BeginToken(t)
    \/ EvalFlags(t)
    \/ EvalWidth(t)
    \/ EvalPrecision(t)
    \/ EvalLength(t)
    \/ ConvInteger(t)
    \/ ConvFloat(t)
    \/ Terminate(t)

SpecNumber == InitNumber /\ [][NextNumber]_vars

\* The threads of a program built with either port: Main initialises the
\* driver, then the other threads enter and leave the critical section.
InitCpu ==
  /\ port \in Ports
  /\ libc \in ZeroMutexOutcomes
  /\ mutex = ZeroMutex
  /\ task = [t \in {Main} \cup Tasks |->
               [pc |-> IF t = Main THEN "reset" ELSE "idle", rounds |-> 0]]
  /\ abi = "LP64"
  /\ call = [t \in {1} |-> Idle]
  /\ prev = <<>>

NextCpu ==
  \/ port_cpu_init
  \/ \E t \in Tasks :
       \/ critical_section_enter_call(t)
       \/ port_cpu_critical_section_enter(t)
       \/ port_cpu_critical_section_leave(t)

SpecCpu == InitCpu /\ [][NextCpu]_vars

---------------------------------------------------------------------------
(* The properties.  The logical output of a call is the sequence of the    *)
(* characters it gave to its sink before the terminator.                   *)

Done(t) == call[t].pc = "done"

\* a call that read no argument C leaves undefined
Defined(c) == ~c.ub

\* the characters given to the sink so far
Emitted(c) == [i \in 1..Len(c.log) |-> c.log[i].ch]

\* the logical output of a call that has returned
Text(c) == SubSeq(Emitted(c), 1, Len(c.log) - 1)

\* C1: utl_snprintf with a destination of capacity n, and the call
\* utl_snprintf(NULL, 0, ...), return the length of the full logical output
\* whatever n is; the utl_sprintf call with the same format and arguments
\* produces that output and returns that count.
C1_CountIsLogicalLength ==
  \A t \in Threads :
    /\ Done(t) /\ call[t].entry \in {"utl_snprintf", "utl_snprintf_null"}
         => call[t].ret = Len(Text(call[t]))
    /\ ( /\ Done(t) /\ call[t].entry = "utl_sprintf" /\ prev # <<>>
         /\ prev[1].entry \in {"utl_snprintf", "utl_snprintf_null"}
         /\ Defined(prev[1]) /\ Defined(call[t]) )
         => /\ prev[1].ret = call[t].ret
            /\ Text(prev[1]) = Text(call[t])

\* a bounded call that truncated its output, repeated through utl_sprintf
C1_Witness ==
  \E t \in Threads :
    /\ Done(t) /\ call[t].entry = "utl_sprintf" /\ prev # <<>>
    /\ prev[1].entry = "utl_snprintf"
    /\ Defined(prev[1]) /\ Defined(call[t])
    /\ Lt64(prev[1].maxlen, FromInt(prev[1].ret))
    /\ prev[1].ret = call[t].ret /\ call[t].ret >= 5

\* C2: utl_snprintf with capacity n stores nothing at an index >= n (the
\* destination has exactly n bytes, oob records a store outside it); when
\* it has returned and n >= 1, the destination holds the first min(L, n-1)
\* characters of the logical output, a NUL at index min(L, n-1), and the
\* bytes behind it are untouched; with n = 0 nothing is stored.
C2_BoundedStore ==
  \A t \in Threads :
    call[t].pc # "idle" /\ call[t].entry = "utl_snprintf" =>
      LET c == call[t]
          n == Len(c.buffer.cells)
          L == Len(Text(c))
          k == Min(L, n - 1)
      IN  /\ ~c.oob
          /\ n = ToNat(c.maxlen)
          /\ Done(t) /\ n >= 1 =>
                /\ SubSeq(c.buffer.cells, 1, k) = SubSeq(Text(c), 1, k)
                /\ c.buffer.cells[k + 1] = NUL
                /\ \A i \in (k + 2)..n : c.buffer.cells[i] = "?"

\* "%s" with "hello" into 4 bytes stores "hel" and a NUL and returns 5
C2_Witness ==
  \E t \in Threads :
    /\ Done(t) /\ call[t].entry = "utl_snprintf"
    /\ call[t].fmt = <<"%", "s">> /\ call[t].va = <<StrArg(Hello)>>
    /\ call[t].maxlen = FromInt(4)
    /\ call[t].buffer.cells = <<"h", "e", "l", NUL>>
    /\ call[t].ret = 5

\* C3: for every format string, one that ends inside a '%' token included,
\* the read position never goes past the terminator of the format string
\* (position Len(fmt) + 1 of the memory at `format`).
C3_ReadStopsAtTerminator ==
  \A t \in Threads :
    call[t].pc # "idle" => call[t].pos <= Len(call[t].fmt) + 1

KnownConversions == IntConvs \cup FloatConvs \cup {"c", "s", "p", "%"}

UnknownLetters == {"q", "k", "y", "L"}

\* C4 as stated: '%' and an unknown conversion letter come out as the '%'
\* and the letter, and no argument is consumed.
C4_UnknownLetterVerbatim ==
  \A t \in Threads :
    ( /\ Done(t) /\ Len(call[t].fmt) = 2
      /\ call[t].fmt[1] = "%" /\ call[t].fmt[2] \in UnknownLetters )
    => Text(call[t]) = call[t].fmt /\ call[t].ap = 0

\* C4: a conversion letter that is none of d i u x X o b f F e E g G c s p %
\* is emitted alone and consumes no argument; the '%' and the flags, width,
\* precision and length characters in front of it emit nothing.
C4_UnknownLetterAlone ==
  [][\A t \in Threads :
       /\ ( /\ Mapped(t) /\ call[t].pc = "spec"
            /\ Cur(call[t]) \notin KnownConversions \cup {NUL}
            /\ call'[t] # call[t] )
            => /\ Emitted(call'[t]) = Append(Emitted(call[t]), Cur(call[t]))
               /\ call'[t].idx = call[t].idx + 1
               /\ call'[t].ap = call[t].ap
               /\ call'[t].pos = call[t].pos + 1
       /\ ( /\ Mapped(t)
            /\ \/ call[t].pc \in {"flags", "width", "precision", "length"}
               \/ call[t].pc = "loop" /\ Cur(call[t]) = "%" )
            => Emitted(call'[t]) = Emitted(call[t])
    ]_vars

\* "%05q%d" with 42 has given "q42" and read one argument
C4_Witness ==
  \E t \in Threads :
    /\ Done(t) /\ call[t].fmt = <<"%", "0", "5", "q", "%", "d">>
    /\ call[t].va = <<IntArg(42)>>
    /\ Text(call[t]) = <<"q", "4", "2">>
    /\ call[t].ap = 1 /\ Defined(call[t])

---------------------------------------------------------------------------
(* Reading a numeral back: the value of a text of digits in a base.        *)

HexValue(ch) ==
  IF \E d \in 1..10 : DigitChars[d] = ch
    THEN (CHOOSE d \in 1..10 : DigitChars[d] = ch) - 1
  ELSE IF \E d \in 1..6 : LowerChars[d] = ch
    THEN (CHOOSE d \in 1..6 : LowerChars[d] = ch) + 9
  ELSE IF \E d \in 1..6 : UpperChars[d] = ch
    THEN (CHOOSE d \in 1..6 : UpperChars[d] = ch) + 9
  ELSE 99

IsNumeral(text, base) ==
  Len(text) >= 1 /\ \A i \in 1..Len(text) : HexValue(text[i]) < base

RECURSIVE ParseFrom(_, _, _, _)
ParseFrom(text, i, base, acc) ==
  IF i > Len(text) THEN acc
  ELSE ParseFrom(text, i + 1, base, MulAdd64(acc, base, HexValue(text[i])))

\* whether text, read as an integer in the base, is the value v (a 64-bit
\* pattern, sign-extended for a negative number)
ParsesTo(text, base, v) ==
  IF Len(text) >= 1 /\ text[1] = "-"
    THEN /\ IsNumeral(Tail(text), base)
         /\ ParseFrom(Tail(text), 1, base, Zero64) = Neg64(v)
    ELSE IsNumeral(text, base) /\ ParseFrom(text, 1, base, Zero64) = v

\* the length modifiers that select int, long and long long
PlainLengths == {<<>>, <<"l">>, <<"l", "l">>}

LengthKind(l) == IF l = <<>> THEN "int" ELSE IF l = <<"l">> THEN "long" ELSE "llong"

\* the value of the argument as the conversion's type has it
TypedValue(cv, l, v) ==
  IF cv \in {"d", "i"} THEN SignedValue(LengthKind(l), {}, v)
  ELSE UnsignedValue(LengthKind(l), {}, v)

\* C5: an int, long or long long value formatted with default flags in base
\* 2, 8, 10 or 16 (with the matching length modifier), read back as an
\* integer in that base, is the value again.
C5_RoundTrip ==
  \A t \in Threads : \A l \in PlainLengths, cv \in IntConvs :
    ( /\ Done(t) /\ Defined(call[t])
      /\ call[t].fmt = Tok(<<>>, <<>>, <<>>, l, <<cv>>) )
    => ParsesTo(Text(call[t]), BaseOf(cv), TypedValue(cv, l, call[t].va[1].v))

\* the round trip in the bases 8, 10 and 16, and in base 2 for int
C5_RoundTripFits ==
  \A t \in Threads : \A l \in PlainLengths, cv \in IntConvs :
    ( /\ Done(t) /\ Defined(call[t])
      /\ call[t].fmt = Tok(<<>>, <<>>, <<>>, l, <<cv>>)
      /\ cv = "b" => l = <<>> )
    => ParsesTo(Text(call[t]), BaseOf(cv), TypedValue(cv, l, call[t].va[1].v))

Zeros(n) == [i \in 1..n |-> "0"]

\* what C6 says "%0Wd" gives for v with |v| < 100: the sign if any, zeros,
\* the digits, max(W, digits + sign) characters in all
ZeroPadded(w, v) ==
  LET sign == IF v < 0 THEN <<"-">> ELSE <<>>
      digits == Dec(IF v < 0 THEN 0 - v ELSE v)
  IN  sign \o Zeros(Max(w, Len(digits) + Len(sign)) - Len(digits) - Len(sign))
           \o digits

ZeroPadValues == {42, 0 - 42, 0}

\* C6 as stated: "%0Wd" gives the sign, zeros and the digits, of total
\* length max(W, digits + sign), for every width W.
C6_ZeroPadAnyWidth ==
  \A t \in Threads : \A w \in 1..MaxWidth, v \in ZeroPadValues :
    ( /\ Done(t) /\ call[t].fmt = Tok(<<"0">>, Dec(w), <<>>, <<>>, <<"d">>)
      /\ call[t].va = <<IntArg(v)>> )
    => Text(call[t]) = ZeroPadded(w, v)

\* C6: for a width W up to PRINTF_NTOA_BUFFER_SIZE, "%0Wd" gives the sign if
\* any, zeros and the decimal digits, max(W, digits + sign) characters in
\* all, one column of the width being kept for the sign.
C6_ZeroPadWidth ==
  \A t \in Threads :
    \A w \in 1..Min(MaxWidth, PRINTF_NTOA_BUFFER_SIZE), v \in ZeroPadValues :
      ( /\ Done(t) /\ call[t].fmt = Tok(<<"0">>, Dec(w), <<>>, <<>>, <<"d">>)
        /\ call[t].va = <<IntArg(v)>> )
      => Text(call[t]) = ZeroPadded(w, v)

\* "%05d" of -42 has given "-0042"
C6_Witness ==
  \E t \in Threads :
    /\ Done(t) /\ call[t].fmt = <<"%", "0", "5", "d">>
    /\ call[t].va = <<IntArg(0 - 42)>>
    /\ Text(call[t]) = <<"-", "0", "0", "4", "2">>

\* the hexadecimal digits of a value, most significant first, in lowercase
RECURSIVE LowerHex(_)
LowerHex(v) ==
  LET d == Mod64(v, 16)
      ch == IF d < 10 THEN DigitChars[d + 1] ELSE LowerChars[d - 9]
  IN  IF IsZero64(Div64(v, 16)) THEN <<ch>> ELSE Append(LowerHex(Div64(v, 16)), ch)

\* C7: "%x" of an unsigned int v gives its lowercase hexadecimal digits
\* (255 gives "ff"); "%#x" of a v that is not zero gives "0x" and those
\* digits (255 gives "0xff"); "%#x" of 0 gives "0".
C7_HexAlternateForm ==
  \A t \in Threads :
    Done(t) /\ Defined(call[t]) /\ Len(call[t].va) = 1 =>
      LET v == Trunc32(call[t].va[1].v)
      IN  /\ call[t].fmt = <<"%", "x">> => Text(call[t]) = LowerHex(v)
          /\ call[t].fmt = <<"%", "#", "x">> =>
                Text(call[t]) = IF IsZero64(v) THEN <<"0">>
                                ELSE <<"0", "x">> \o LowerHex(v)
          /\ call[t].fmt = <<"%", "x">> /\ v = FromInt(255) =>
                Text(call[t]) = <<"f", "f">>
          /\ call[t].fmt = <<"%", "#", "x">> /\ v = FromInt(255) =>
                Text(call[t]) = <<"0", "x", "f", "f">>

\* "%#x" of 0 has given "0"
C7_Witness ==
  \E t \in Threads :
    /\ Done(t) /\ call[t].fmt = <<"%", "#", "x">>
    /\ call[t].va = <<IntArg(0)>>
    /\ Text(call[t]) = <<"0">>

\* the characters of the flags, width, precision and length fields
FieldChars ==
  {"0", "-", "+", " ", "#", "."} \cup {DigitChars[d] : d \in 1..10}
  \cup {"l", "h", "t", "j", "z"}

\* a format string that is one token of the conversion cv with no '*'
IsToken(fmt, cv) ==
  /\ Len(fmt) >= 2 /\ fmt[1] = "%" /\ fmt[Len(fmt)] = cv
  /\ \A i \in 2..(Len(fmt) - 1) : fmt[i] \in FieldChars

Has(fmt, ch) == \E i \in 1..Len(fmt) : fmt[i] = ch

Nil == <<"(", "n", "i", "l", ")">>

\* C8: "%p" of a null pointer gives the placeholder "(nil)" whatever the
\* flags, width and precision of the token are, and the pointer is read
\* once and never formatted: the output is "(nil)", followed with the '-'
\* flag by the spaces that fill the 2 * sizeof(void*) + 2 columns of a
\* pointer.
C8_NullPointerPlaceholder ==
  \A t \in Threads :
    ( /\ Done(t) /\ IsToken(call[t].fmt, "p") /\ Len(call[t].va) = 1
      /\ call[t].va[1].ty = "ptr" /\ IsZero64(call[t].va[1].v) )
    => /\ Text(call[t]) =
            IF Has(call[t].fmt, "-")
              THEN Nil \o Spaces(SizeofPtr(abi) * 2 + 2 - Len(Nil)) ELSE Nil
       /\ call[t].reads = <<"void*">>
       /\ Defined(call[t])

\* "%#20.3p" of a null pointer has given "(nil)"
C8_Witness ==
  \E t \in Threads :
    /\ Done(t) /\ call[t].fmt = <<"%", "#", "2", "0", ".", "3", "p">>
    /\ call[t].va = <<PtrArg(Zero64)>>
    /\ Text(call[t]) = Nil

Null == <<"(", "n", "u", "l", "l", ")">>

\* C9: "%s" of a null string gives "(null)", padded with spaces to the
\* field width (on the left, or with the '-' flag on the right).
C9_NullStringPadded ==
  \A t \in Threads :
    ( /\ Done(t) /\ IsToken(call[t].fmt, "s") /\ ~Has(call[t].fmt, ".")
      /\ Len(call[t].va) = 1 /\ call[t].va[1].ty = "str"
      /\ call[t].va[1].v.null )
    => LET pad == Spaces(Max(call[t].width, Len(Null)) - Len(Null))
       IN  Text(call[t]) = IF Has(call[t].fmt, "-") THEN Null \o pad
                           ELSE pad \o Null

\* the padding of "(null)" where the token has no '0' flag
C9_NullStringPaddedNoZero ==
  \A t \in Threads :
    ( /\ Done(t) /\ IsToken(call[t].fmt, "s") /\ ~Has(call[t].fmt, ".")
      /\ ~Has(call[t].fmt, "0")
      /\ Len(call[t].va) = 1 /\ call[t].va[1].ty = "str"
      /\ call[t].va[1].v.null )
    => LET pad == Spaces(Max(call[t].width, Len(Null)) - Len(Null))
       IN  Text(call[t]) = IF Has(call[t].fmt, "-") THEN Null \o pad
                           ELSE pad \o Null

\* the format strings that end inside a token, have an unknown conversion
\* letter, or come with arguments of other types than they read; with every
\* other format string the calls pass the arguments its conversions take
OddFormats ==
  PlainFormats \cup {i.fmt : i \in UnknownCalls \cup MismatchedCalls}

\* C10: the arguments are read from left to right, one for each '*' and
\* one for each conversion, with the type of the conversion; "%p" reads one
\* pointer whatever the pointer size is.
C10_OneArgumentPerConversion ==
  \A t \in Threads :
    Done(t) /\ call[t].fmt \notin OddFormats =>
      /\ Len(call[t].reads) = Len(call[t].va)
      /\ \A i \in 1..Len(call[t].va) :
            Compatible(call[t].reads[i], call[t].va[i].ty)

\* the same where a pointer is as wide as long long
C10_OneArgumentPerConversionLP64 ==
  abi = "LP64" => C10_OneArgumentPerConversion

\* the characters of s that are not the NUL character, in their order
RECURSIVE NonNul(_)
NonNul(s) ==
  IF s = <<>> THEN <<>>
  ELSE IF Head(s) = NUL THEN NonNul(Tail(s))
  ELSE <<Head(s)>> \o NonNul(Tail(s))

\* C11: a call through utl_printf has given __io_putchar, and a call
\* through utl_fctprintf has given the callback, exactly the characters it
\* has emitted so far that are not NUL, once each and in their order; no
\* NUL reaches them, neither the terminator nor one a conversion produced.
C11_SinkSkipsNul ==
  \A t \in Threads :
    /\ call[t].pc # "idle" /\ call[t].entry = "utl_printf" =>
         call[t].io = NonNul(Emitted(call[t])) /\ call[t].cb = <<>>
    /\ call[t].pc # "idle" /\ call[t].entry = "utl_fctprintf" =>
         call[t].cb = NonNul(Emitted(call[t])) /\ call[t].io = <<>>

\* "a%cb" with the character 0 has returned through the callback: the NUL of
\* the conversion and the terminator were emitted, the callback saw "ab"
C11_Witness ==
  \E t \in Threads :
    /\ Done(t) /\ call[t].entry = "utl_fctprintf"
    /\ call[t].fmt = <<"a", "%", "c", "b">>
    /\ Emitted(call[t]) = <<"a", NUL, "b", NUL>>
    /\ call[t].cb = <<"a", "b">>

\* C12: a call with a null destination uses the discarding sink, whatever
\* the capacity it was given: it stores nothing, calls no output primitive,
\* and the count it returns is the one the call with the same format and
\* arguments returns with a destination large enough for the whole output.
C12_NullDestinationDiscards ==
  \A t \in Threads :
    /\ call[t].pc # "idle" /\ call[t].buffer.null =>
         /\ call[t].out = "_out_null"
         /\ ~call[t].oob /\ call[t].buffer = NULL
         /\ call[t].io = <<>> /\ call[t].cb = <<>>
    /\ ( /\ Done(t) /\ call[t].entry = "utl_sprintf" /\ prev # <<>>
         /\ prev[1].buffer.null
         /\ Defined(prev[1]) /\ Defined(call[t]) )
         => /\ prev[1].ret = call[t].ret
            /\ call[t].ret < DestSize /\ ~call[t].oob
            /\ SubSeq(call[t].buffer.cells, 1, call[t].ret) = Text(prev[1])

\* a call with a null destination and the capacity MaxCap returned 34, and
\* the same call with a destination of DestSize bytes returned 34 as well
C12_Witness ==
  \E t \in Threads :
    /\ Done(t) /\ call[t].entry = "utl_sprintf" /\ prev # <<>>
    /\ prev[1].buffer.null /\ prev[1].maxlen = FromInt(MaxCap)
    /\ Defined(prev[1]) /\ Defined(call[t])
    /\ Len(prev[1].log) = MaxWidth + 1
    /\ prev[1].ret = MaxWidth /\ call[t].ret = MaxWidth

\* what a completed call gave its caller: the count returned, the bytes of
\* the destination, the characters given to the output primitives
Result(c) == <<c.ret, c.buffer, c.io, c.cb>>

\* C15: a call made a second time through the same entry point with the
\* same format, the same arguments and a destination of its own returns
\* the same count and produces the same output as the first.
C15_SameCallSameResult ==
  \A t \in Threads :
    ( /\ Done(t) /\ prev # <<>> /\ prev[1].entry = call[t].entry
      /\ prev[1].maxlen = call[t].maxlen )
    => Result(call[t]) = Result(prev[1])

\* the same for the calls that read no argument C leaves undefined
C15_SameCallSameResultDefined ==
  \A t \in Threads :
    ( /\ Done(t) /\ prev # <<>> /\ prev[1].entry = call[t].entry
      /\ prev[1].maxlen = call[t].maxlen
      /\ Defined(prev[1]) /\ Defined(call[t]) )
    => Result(call[t]) = Result(prev[1])

\* the formats of one "%d" token whose width, or precision, is a '*'
StarWidthFormats == {<<"%", "*", "d">>, <<"%", "-", "*", "d">>, <<"%", "0", "*", "d">>}

StarPrecisionFormats == {<<"%", ".", "*", "d">>}

\* |w| for an int w, as a 64-bit pattern
Abs32(w) == IF IsNeg64(SignExt32(w)) THEN Neg64(SignExt32(w)) ELSE w

\* the call t has read the int argument w for the '*' of its token
ReadStar(t, fmts) ==
  /\ call[t].pc # "idle" /\ call[t].fmt \in fmts
  /\ call[t].ap >= 1 /\ call[t].va[1].ty = "int"

\* C17: the width and the precision are never negative; when the width
\* stage has read the int w for a '*', it ends with the width |w|, with
\* left-justify set when w < 0, for every int w, the most negative
\* included; the precision read for a ".*" is max(p, 0).  In the
\* state "wrap" the width is 2^31, the absolute value of the most negative
\* int; the state "trap" has no width.
C17_StarWidthAbsolute ==
  \A t \in Threads :
    /\ call[t].pc # "idle" => call[t].width >= 0 /\ call[t].precision >= 0
    /\ ReadStar(t, StarWidthFormats) =>
         LET w == call[t].va[1].v
         IN  /\ call[t].pc # "trap"
             /\ IsNeg64(w) => FLAGS_LEFT \in call[t].flags
             /\ call[t].pc # "wrap" => FromInt(call[t].width) = Abs32(w)
    /\ ReadStar(t, StarPrecisionFormats) =>
         LET p == call[t].va[1].v
         IN  FromInt(call[t].precision) = IF IsNeg64(p) THEN Zero64 ELSE p

\* the same for every int but the most negative
C17_StarWidthAbsoluteNegatable ==
  \A t \in Threads :
    /\ call[t].pc # "idle" => call[t].width >= 0 /\ call[t].precision >= 0
    /\ ReadStar(t, StarWidthFormats) /\ call[t].va[1].v # INT_MIN =>
         LET w == call[t].va[1].v
         IN  /\ call[t].pc \notin Overflows
             /\ IsNeg64(w) => FLAGS_LEFT \in call[t].flags
             /\ FromInt(call[t].width) = Abs32(w)
    /\ ReadStar(t, StarPrecisionFormats) =>
         LET p == call[t].va[1].v
         IN  FromInt(call[t].precision) = IF IsNeg64(p) THEN Zero64 ELSE p

\* the next frame of a call that runs alone and reads no undefined argument
AloneStep(c) ==
  CASE c.pc = "loop" /\ Cur(c) = NUL -> TerminateStep(c)
    [] c.pc = "loop" /\ Cur(c) = "%" -> BeginTokenStep(c)
    [] c.pc = "loop" /\ Cur(c) \notin {NUL, "%"} -> CopyLiteralStep(c)
    [] c.pc = "flags" -> EvalFlagsStep(c)
    [] c.pc = "width" -> EvalWidthStep(c, Zero64, "trap")
    [] c.pc = "precision" -> EvalPrecisionStep(c, Zero64)
    [] c.pc = "length" -> EvalLengthStep(c)
    [] c.pc = "spec" /\ Cur(c) \in IntConvs -> ConvIntegerStep(c, Zero64)
    [] c.pc = "spec" /\ Cur(c) = "c" -> ConvCharStep(c, Zero64)
    [] c.pc = "spec" /\ Cur(c) = "s" -> ConvStringStep(c, NULL)
    [] c.pc = "spec" /\ Cur(c) = "%" -> ConvPercentStep(c)

\* the completed frame of the call c when nothing else runs
RECURSIVE RunAlone(_)
RunAlone(c) == IF c.pc = "done" THEN c ELSE RunAlone(AloneStep(c))

\* the call c at its entry, with a destination of the same size
Start(c) ==
  NewFrame(c.entry, c.out,
           IF c.buffer.null THEN NULL
           ELSE Ptr([k \in 1..Len(c.buffer.cells) |-> "?"]),
           c.maxlen, c.fmt, Append(c.fmt, NUL), c.va)

\* C16: of two calls that run concurrently on destinations of their own,
\* in any interleaving of their steps, each returns the count and leaves
\* the output that the same call returns and leaves when it runs alone.
C16_ConcurrentAsAlone ==
  \A t \in Threads :
    Done(t) => Result(call[t]) = Result(RunAlone(Start(call[t])))

\* thread 1 has completed "%d %s" into its 6 bytes while the call of
\* thread 2 was between its two tokens
C16_Witness ==
  /\ Done(1) /\ call[1].fmt = <<"%", "d", " ", "%", "s">>
  /\ call[1].entry = "utl_snprintf" /\ call[1].ret = 8
  /\ call[1].buffer.cells = <<"-", "7", " ", "h", "e", NUL>>
  /\ call[2].pc = "spec" /\ call[2].fmt = <<"%", "c", "%", "%">>
  /\ call[2].idx = 1 /\ call[2].entry = "utl_sprintf"

---------------------------------------------------------------------------
(* The exact decimal value of a finite double, for the statements about    *)
(* the digits printed: |x| = x.m * 2^x.e is compared with the powers of    *)
(* ten in whole numbers.  The powers 10^0 .. 10^17 are those of the table, *)
(* which holds them exactly.                                               *)

Ten(k) == DblTrunc(powers_of_10[k + 1])

\* a * 2^ea >= b * 2^eb
ScaledGe(a, ea, b, eb) ==
  IF ea >= eb THEN ~BigLt(BigShl(a, ea - eb), b)
  ELSE ~BigLt(a, BigShl(b, eb - ea))

\* |x| >= 10^k for -17 <= k <= 17
AtLeastTen(x, k) ==
  IF k >= 0 THEN ScaledGe(x.m, x.e, Ten(k), 0)
  ELSE ScaledGe(BigMul(x.m, Ten(0 - k)), x.e, <<1>>, 0)

\* 10^-17 <= |x| < 10^17
InDecimalRange(x) ==
  /\ ~DblIsZero(x)
  /\ AtLeastTen(x, 0 - PRINTF_MAX_SUPPORTED_PRECISION)
  /\ ~AtLeastTen(x, PRINTF_MAX_SUPPORTED_PRECISION)

\* the X with 10^X <= |x| < 10^(X+1)
DecimalExponent(x) ==
  CHOOSE X \in (0 - PRINTF_MAX_SUPPORTED_PRECISION)..(PRINTF_MAX_SUPPORTED_PRECISION - 1) :
    AtLeastTen(x, X) /\ ~AtLeastTen(x, X + 1)

\* |x| rounded to P significant digits is 10^(X+1), where X is the decimal
\* exponent of x: 2 * |x| * 10^(P-X-1) >= 2 * 10^P - 1
RoundsToNextPower(x, P, X) ==
  ScaledGe(BigMul(x.m, Ten(Max(P - X - 1, 0))), x.e + 1,
           BigMul(BigSub(BigShl(Ten(P), 1), <<1>>), Ten(Max(X + 1 - P, 0))), 0)

\* the decimal exponent of x rounded to P significant digits, which is the
\* exponent a conversion in the style of %e shows; 0 for 0.0
SignificantExponent(x, P) ==
  IF DblIsZero(x) THEN 0
  ELSE IF RoundsToNextPower(x, P, DecimalExponent(x)) THEN DecimalExponent(x) + 1
  ELSE DecimalExponent(x)

\* the double a call of SpecNumber converts: its last argument
DoubleOf(c) == c.va[Len(c.va)].v

FiniteCall(c) ==
  /\ c.pc = "done" /\ c.va # <<>>
  /\ c.va[Len(c.va)].ty = "double"
  /\ DoubleOf(c).cls = "fin"

\* the precision P of %g: 6 where none is given, 1 for 0
AdaptivePrecision(c) ==
  IF FLAGS_PRECISION \notin c.flags THEN PRINTF_DEFAULT_FLOAT_PRECISION
  ELSE IF c.precision = 0 THEN 1
  ELSE c.precision

\* the call printed an exponent
PrintedExponent(c) == \E i \in 1..Len(c.log) : c.log[i].ch \in {"e", "E"}

\* a finished %g or %G of a finite double whose exponent X can be told
\* with the powers of ten of the table: 10^-17 <= |x| < 10^17, P <= 17 and
\* |P - X - 1| <= 17
AdaptiveCall(c) ==
  /\ FiniteCall(c)
  /\ FLAGS_ADAPT_EXP \in c.flags
  /\ AdaptivePrecision(c) >= 1 /\ InTable(AdaptivePrecision(c))
  /\ \/ DblIsZero(DoubleOf(c))
     \/ /\ InDecimalRange(DoubleOf(c))
        /\ InTable(PRINTF_ABS(AdaptivePrecision(c) - DecimalExponent(DoubleOf(c)) - 1))

\* C13: %g and %G with the precision P (6 by default, 1 for 0) print in
\* fixed notation exactly when the decimal exponent X of the value, rounded
\* to P significant digits, satisfies -4 <= X < P, and with an exponent
\* otherwise: 100000.0 gives "100000" and 1000000.0 gives "1e+06".
C13_AdaptiveNotation ==
  \A t \in DOMAIN call :
    AdaptiveCall(call[t]) =>
      (~PrintedExponent(call[t])
       <=> /\ SignificantExponent(DoubleOf(call[t]), AdaptivePrecision(call[t])) >= 0 - 4
           /\ SignificantExponent(DoubleOf(call[t]), AdaptivePrecision(call[t]))
                < AdaptivePrecision(call[t]))

\* the two calls the specification gives as examples: the first prints as
\* it says, the second does not
C13_Example100000 ==
  \A t \in DOMAIN call :
    (FiniteCall(call[t]) /\ call[t].fmt = <<"%", "g">>
     /\ DblEq(DoubleOf(call[t]), powers_of_10[6]))
      => [i \in 1..Len(call[t].log) |-> call[t].log[i].ch]
           = <<"1", "0", "0", "0", "0", "0", "NUL">>

C13_Example1000000 ==
  \A t \in DOMAIN call :
    (FiniteCall(call[t]) /\ call[t].fmt = <<"%", "g">>
     /\ DblEq(DoubleOf(call[t]), powers_of_10[7]))
      => [i \in 1..Len(call[t].log) |-> call[t].log[i].ch]
           = <<"1", "e", "+", "0", "6", "NUL">>

\* the calls whose exponent X is not P itself follow the rule
C13_AdaptiveNotationAway ==
  \A t \in DOMAIN call :
    (/\ AdaptiveCall(call[t])
     /\ SignificantExponent(DoubleOf(call[t]), AdaptivePrecision(call[t]))
          # AdaptivePrecision(call[t]))
      => (~PrintedExponent(call[t])
          <=> /\ SignificantExponent(DoubleOf(call[t]), AdaptivePrecision(call[t])) >= 0 - 4
              /\ SignificantExponent(DoubleOf(call[t]), AdaptivePrecision(call[t]))
                   < AdaptivePrecision(call[t]))

---------------------------------------------------------------------------
(* The decomposition of a value into its integral and fractional part,     *)
(* against the exact value of the double.                                  *)

\* twice the distance of two naturals
BigTwiceDistance(a, b) ==
  IF BigLt(a, b) THEN BigShl(BigSub(b, a), 1) ELSE BigShl(BigSub(a, b), 1)

\* the number of units 10^-precision a decomposition stands for; at the
\* precision 0 no digit of the fractional part is printed
UnitsOf(r) ==
  IF r.precision = 0 THEN r.integral
  ELSE BigAdd(BigMul(r.integral, Ten(r.precision)), r.fractional)

\* twice the distance of |x| and n * 10^-p, and the unit 10^-p, both as
\* multiples of 10^-p * 2^x.e, for x.e < 0
TwiceOff(x, p, n) == BigTwiceDistance(BigShl(n, 0 - x.e), BigMul(x.m, Ten(p)))

UnitOf(x) == BigShl(<<1>>, 0 - x.e)

\* whether |x| lies in the very middle of two multiples of 10^-p
ExactTie(x, p, n) == x.e < 0 /\ TwiceOff(x, p, n) = UnitOf(x)

\* whether n * 10^-p is the multiple of 10^-p nearest to |x|, and the even
\* one of the two where |x| lies in their middle
NearestEven(x, p, n) ==
  IF x.e >= 0 THEN n = BigShl(BigMul(x.m, Ten(p)), x.e)
  ELSE \/ BigLt(TwiceOff(x, p, n), UnitOf(x))
       \/ ExactTie(x, p, n) /\ ~BigOdd(n)

\* the decompositions by get_components of a completed call
FixedDecompositions(c) ==
  {i \in 1..Len(c.fp) : c.fp[i].fn = "get_components" /\ InTable(c.fp[i].precision)}

\* C14: the fixed-decimal decomposition of a finite value at the precision p
\* is the multiple of 10^-p nearest to the value, and where the value lies
\* exactly in the middle of two multiples the one with the even last digit.
C14_RoundsToNearestEven ==
  \A t \in DOMAIN call :
    FiniteCall(call[t]) =>
      \A i \in FixedDecompositions(call[t]) :
        NearestEven(DoubleOf(call[t]), call[t].fp[i].precision, UnitsOf(call[t].fp[i]))

\* the part of C14 about the exact ties: the decomposition of a value in the
\* middle of two multiples of 10^-p has the even last digit, the ties with
\* the kept fractional part 0 (they are at the precision 0) included
C14_ExactTieToEven ==
  \A t \in DOMAIN call :
    FiniteCall(call[t]) =>
      \A i \in FixedDecompositions(call[t]) :
        ExactTie(DoubleOf(call[t]), call[t].fp[i].precision, UnitsOf(call[t].fp[i]))
          => ~BigOdd(UnitsOf(call[t].fp[i]))

C14_ExactTieWitness ==
  \E t \in DOMAIN call :
    /\ FiniteCall(call[t])
    /\ \E i \in FixedDecompositions(call[t]) :
         /\ call[t].fp[i].precision = 0
         /\ call[t].fp[i].integral = <<>>
         /\ ExactTie(DoubleOf(call[t]), 0, <<>>)

\* the decompositions of a completed call by the function fn, at a precision
\* that is an index of powers_of_10
DecompositionsBy(c, fn) ==
  {i \in 1..Len(c.fp) : c.fp[i].fn = fn /\ InTable(c.fp[i].precision)}

FractionBelowPower(r) == BigLt(r.fractional, Ten(r.precision))

\* C18: after the decomposition of a value at the precision p, by
\* get_components or by get_normalized_components, the fractional part is
\* below 10^p: rounding that reaches 10^p increments the integral part and
\* resets the fractional part to 0.
C18_FractionBelowPower ==
  \A t \in DOMAIN call :
    FiniteCall(call[t]) =>
      \A i \in DecompositionsBy(call[t], "get_components")
               \cup DecompositionsBy(call[t], "get_normalized_components") :
        FractionBelowPower(call[t].fp[i])

\* the part of C18 about get_normalized_components
C18_NormalizedFractionBelowPower ==
  \A t \in DOMAIN call :
    FiniteCall(call[t]) =>
      \A i \in DecompositionsBy(call[t], "get_normalized_components") :
        FractionBelowPower(call[t].fp[i])

\* 999999.5 as 9.999995 at the precision 2: the fractional part reached 100
\* and was carried
C18_NormalizedWitness ==
  \E t \in DOMAIN call :
    /\ FiniteCall(call[t])
    /\ DoubleOf(call[t]) = Dbl(FALSE, <<0, 0, 4604, 244>>, -33)
    /\ \E i \in DecompositionsBy(call[t], "get_normalized_components") :
         /\ call[t].fp[i].precision = 2
         /\ call[t].fp[i].integral = <<10>>
         /\ call[t].fp[i].fractional = <<>>

\* C19: on every path of a conversion of a finite value, the precision used
\* to decompose the value, to index powers_of_10 and to count the fractional
\* digits is within 0..17, whatever precision was requested.
C19_PrecisionWithinTable ==
  \A t \in DOMAIN call :
    FiniteCall(call[t]) =>
      \A i \in 1..Len(call[t].fp) : InTable(call[t].fp[i].precision)

\* C20: every write into the scratch buffer of the integer or of the float
\* formatter is at an index below its capacity: the buffer handed to the
\* sink never holds more than 32 characters, whatever the value, base,
\* width, precision and flags; padding stops at the capacity.
C20_ScratchWithinCapacity ==
  \A t \in DOMAIN call :
    call[t].pc # "idle" =>
      /\ call[t].scratch <= PRINTF_NTOA_BUFFER_SIZE
      /\ call[t].scratch <= PRINTF_FTOA_BUFFER_SIZE

\* a finite double zero-padded to a width beyond the capacity filled the
\* buffer to its last element
C20_Witness ==
  \E t \in DOMAIN call :
    /\ FiniteCall(call[t])
    /\ FLAGS_ZEROPAD \in call[t].flags
    /\ call[t].width > PRINTF_FTOA_BUFFER_SIZE
    /\ call[t].scratch = PRINTF_FTOA_BUFFER_SIZE

---------------------------------------------------------------------------
(* The sign of %d and %i.                                                  *)

Digits == {DigitChars[d] : d \in 1..10}

LengthChars == {"l", "h", "t", "j", "z"}

\* a format string that is one %d or %i token without a length modifier
\* and without '*', called with one int
SignedIntCall(c) ==
  /\ c.pc = "done" /\ Defined(c)
  /\ IsToken(c.fmt, "d") \/ IsToken(c.fmt, "i")
  /\ \A i \in 1..Len(c.fmt) : c.fmt[i] \notin LengthChars
  /\ Len(c.va) = 1 /\ c.va[1].ty = "int"

\* the character s stands directly before the first digit of the text
SignBeforeDigits(text, s) ==
  \E i \in 2..Len(text) :
    /\ text[i] \in Digits
    /\ text[i - 1] = s
    /\ \A j \in 1..(i - 1) : text[j] \notin Digits

\* the sign character a %d or %i conversion of the call owes, "" if none
SignOwed(c) ==
  IF IsNeg64(c.va[1].v) THEN "-"
  ELSE IF Has(c.fmt, "+") THEN "+"
  ELSE IF Has(c.fmt, " ") THEN " "
  ELSE ""

\* C21: %d and %i always emit the sign character: '-' for a negative
\* argument, '+' (or ' ') for a non-negative one with the '+' (or space)
\* flag, directly before the first digit or padding zero, for every width
\* and precision, those at or beyond the capacity of the scratch buffer
\* included.
C21_SignAlwaysEmitted ==
  \A t \in DOMAIN call :
    (call[t].pc # "idle" /\ SignedIntCall(call[t]) /\ SignOwed(call[t]) # "")
      => SignBeforeDigits(Text(call[t]), SignOwed(call[t]))

\* the part of C21 for a width of at most 32 and a precision of at most 31,
\* where the zeros leave an element of the scratch buffer to the sign
C21_SignWithinCapacity ==
  \A t \in DOMAIN call :
    ( /\ call[t].pc # "idle" /\ SignedIntCall(call[t]) /\ SignOwed(call[t]) # ""
      /\ call[t].width <= PRINTF_NTOA_BUFFER_SIZE
      /\ call[t].precision < PRINTF_NTOA_BUFFER_SIZE )
      => SignBeforeDigits(Text(call[t]), SignOwed(call[t]))

\* "%032d" of -5: the sign takes the last element of the scratch buffer
C21_SignWithinCapacityWitness ==
  \E t \in DOMAIN call :
    /\ call[t].pc # "idle" /\ SignedIntCall(call[t])
    /\ call[t].fmt = <<"%", "0", "3", "2", "d">>
    /\ IsNeg64(call[t].va[1].v)
    /\ Len(Text(call[t])) = PRINTF_NTOA_BUFFER_SIZE
    /\ Text(call[t])[1] = "-"

---------------------------------------------------------------------------
(* The length modifiers.                                                   *)

LengthFlags == {FLAGS_CHAR, FLAGS_SHORT, FLAGS_LONG, FLAGS_LONG_LONG}

\* the length flags of a frame whose length field has been scanned
LengthFlagsOf(c) == c.flags \cap LengthFlags

ScannedLength(c) == c.pc = "spec"

NarrowLengths == {<<>>, <<"h">>, <<"h", "h">>}

\* the type va_arg is to be given for the length modifier l
ReadKind(l) ==
  IF l = <<"l", "l">> THEN "llong" ELSE IF l = <<"l">> THEN "long" ELSE "int"

\* a completed call of one integer conversion with the length modifier l
\* read its argument as ReadKind(l)
ReadAtLength(c) ==
  \A l \in PlainLengths \cup NarrowLengths, cv \in IntConvs :
    (c.pc = "done" /\ c.fmt = Tok(<<>>, <<>>, <<>>, l, <<cv>>))
      => c.reads = <<ReadKind(l)>>

\* C22: the length flags recorded for one conversion are mutually
\* exclusive: after the length field of a token is scanned at most one of
\* char, short, long and long-long is set, and the argument is read at the
\* width of the most specific modifier seen.
C22_LengthFlagsExclusive ==
  \A t \in DOMAIN call :
    /\ ScannedLength(call[t]) => Cardinality(LengthFlagsOf(call[t])) <= 1
    /\ ReadAtLength(call[t])

\* C22 as the code has it: "ll" records long-long together with long and
\* "hh" records char together with short, never a long flag with a short
\* one; the more specific flag decides: the argument is read as long long
\* for ll, as long for l, and as int for hh, h and no modifier.
C22_LengthFlagsNested ==
  \A t \in DOMAIN call :
    /\ ScannedLength(call[t]) =>
         LengthFlagsOf(call[t]) \in
           { {}, {FLAGS_LONG}, {FLAGS_LONG_LONG}, {FLAGS_LONG, FLAGS_LONG_LONG},
             {FLAGS_SHORT}, {FLAGS_SHORT, FLAGS_CHAR} }
    /\ ReadAtLength(call[t])

\* "%lld" was read as long long, with both long flags recorded
C22_Witness ==
  \E t \in DOMAIN call :
    /\ call[t].pc = "done"
    /\ call[t].fmt = <<"%", "l", "l", "d">>
    /\ {FLAGS_LONG, FLAGS_LONG_LONG} \subseteq call[t].flags
    /\ call[t].reads = <<"llong">>

---------------------------------------------------------------------------
(* The hh and h modifiers.                                                 *)

\* the numeral of n > 0 in the base, most significant digit first
RECURSIVE NumeralFrom(_, _, _)
NumeralFrom(n, base, upper) ==
  IF n = 0 THEN <<>>
  ELSE Append(NumeralFrom(n \div base, base, upper),
              IF n % base < 10 THEN DigitChars[(n % base) + 1]
              ELSE IF upper THEN UpperChars[(n % base) - 9]
              ELSE LowerChars[(n % base) - 9])

Numeral(n, base, upper) == IF n = 0 THEN <<"0">> ELSE NumeralFrom(n, base, upper)

\* the low `bits` bits of an int argument, as a natural
LowBits(v, bits) == v[4] % (2 ^ bits)

\* what C23 says a conversion cv of the low `bits` bits n prints
NarrowText(cv, n, bits) ==
  IF cv \in {"d", "i"}
    THEN IF n >= 2 ^ (bits - 1)
           THEN <<"-">> \o Numeral((2 ^ bits) - n, BASE_DECIMAL, FALSE)
           ELSE Numeral(n, BASE_DECIMAL, FALSE)
    ELSE Numeral(n, BaseOf(cv), cv = "X")

NarrowBits(l) == IF l = <<"h", "h">> THEN 8 ELSE 16

\* C23: with hh and h the int-sized argument is reduced to 8 or 16 bits
\* before it is formatted: %hhd and %hhi print the value modulo 2^8 read as
\* signed, %hhu, %hhx, %hhX, %hho and %hhb the value modulo 2^8, and the h
\* conversions likewise modulo 2^16.
C23_NarrowedArgument ==
  \A t \in DOMAIN call :
    \A l \in {<<"h">>, <<"h", "h">>}, cv \in IntConvs :
      ( /\ call[t].pc = "done" /\ Defined(call[t])
        /\ call[t].fmt = Tok(<<>>, <<>>, <<>>, l, <<cv>>) )
        => Text(call[t])
             = NarrowText(cv, LowBits(call[t].va[1].v, NarrowBits(l)), NarrowBits(l))

\* "%hhd" of 255 gives "-1" and "%hu" of 70000 gives "4464"
C23_Witness ==
  \E t \in DOMAIN call :
    /\ call[t].pc = "done" /\ Defined(call[t])
    /\ \/ /\ call[t].fmt = <<"%", "h", "h", "d">>
          /\ call[t].va = <<IntArg(255)>>
          /\ Text(call[t]) = <<"-", "1">>
       \/ /\ call[t].fmt = <<"%", "h", "u">>
          /\ call[t].va = <<IntArg(70000)>>
          /\ Text(call[t]) = <<"4", "4", "6", "4">>

---------------------------------------------------------------------------
(* The magnitude of a signed argument.                                     *)

\* 2^31 and 2^63 in decimal
Two31Text == <<"2", "1", "4", "7", "4", "8", "3", "6", "4", "8">>

Two63Text ==
  <<"9", "2", "2", "3", "3", "7", "2", "0", "3", "6", "8", "5", "4", "7", "7", "5",
    "8", "0", "8">>

\* the most negative value of int, long and long long, and the digits of
\* its magnitude
MostNegative(l) ==
  IF l = <<>> \/ (l = <<"l">> /\ SizeofLong(abi) = 4) THEN INT_MIN ELSE LLONG_MIN

MostNegativeText(l) ==
  IF l = <<>> \/ (l = <<"l">> /\ SizeofLong(abi) = 4) THEN Two31Text ELSE Two63Text

\* a completed %d or %i call with the length modifier l and one argument
\* of its type
SignedCall(c, l, cv) ==
  /\ c.pc = "done" /\ Defined(c)
  /\ c.fmt = Tok(<<>>, <<>>, <<>>, l, <<cv>>)
  /\ Len(c.va) = 1

\* C24: for %d and %i the magnitude given to the numeric formatter is the
\* exact absolute value of the argument, for every int, long and long long,
\* the most negative value of each type included: the output of a negative
\* value is '-' and the decimal digits of its magnitude, and that of the
\* most negative value is '-' and the digits of 2^(w-1).
C24_ExactMagnitude ==
  \A t \in DOMAIN call : \A l \in PlainLengths, cv \in {"d", "i"} :
    SignedCall(call[t], l, cv) =>
      /\ IsNeg64(TypedValue(cv, l, call[t].va[1].v)) =>
           /\ Text(call[t])[1] = "-"
           /\ IsNumeral(Tail(Text(call[t])), BASE_DECIMAL)
           /\ ParseFrom(Tail(Text(call[t])), 1, BASE_DECIMAL, Zero64)
                = Neg64(TypedValue(cv, l, call[t].va[1].v))
      /\ ~IsNeg64(TypedValue(cv, l, call[t].va[1].v)) =>
           /\ IsNumeral(Text(call[t]), BASE_DECIMAL)
           /\ ParseFrom(Text(call[t]), 1, BASE_DECIMAL, Zero64)
                = TypedValue(cv, l, call[t].va[1].v)
      /\ TypedValue(cv, l, call[t].va[1].v) = MostNegative(l) =>
           Text(call[t]) = <<"-">> \o MostNegativeText(l)

\* "%lld" of LLONG_MIN gave "-9223372036854775808"
C24_Witness ==
  \E t \in DOMAIN call :
    /\ SignedCall(call[t], <<"l", "l">>, "d")
    /\ call[t].va[1].v = LLONG_MIN
    /\ Text(call[t]) = <<"-">> \o Two63Text

---------------------------------------------------------------------------
(* The pointer conversion.                                                 *)

PointerWidths == {<<>>, <<"4">>, <<"2", "0">>}

LowerHexChars == Digits \cup {LowerChars[d] : d \in 1..6}

\* a completed call of one %p token with the width w, no flag and no
\* precision, and a pointer that is not null
PointerCall(c, w) ==
  /\ c.pc = "done"
  /\ c.fmt = Tok(<<>>, w, <<>>, <<>>, <<"p">>)
  /\ Len(c.va) = 1 /\ c.va[1].ty = "ptr"
  /\ ~IsZero64(c.va[1].v)

\* "0x" and 2 * sizeof(void*) lowercase hexadecimal digits that are the
\* address v
PointerText(text, v) ==
  /\ Len(text) = 2 * SizeofPtr(abi) + 2
  /\ text[1] = "0" /\ text[2] = "x"
  /\ \A i \in 3..Len(text) : text[i] \in LowerHexChars
  /\ ParseFrom(SubSeq(text, 3, Len(text)), 1, BASE_HEX, Zero64) = v

\* C25: "%p" of a pointer that is not null gives "0x" and exactly
\* 2 * sizeof(void*) lowercase hexadecimal digits, padded with zeros on the
\* left, 2 * sizeof(void*) + 2 characters in all whatever width the token
\* has, and no significant digit of the address is dropped for the prefix.
C25_PointerFormat ==
  \A t \in DOMAIN call : \A w \in PointerWidths :
    PointerCall(call[t], w) => PointerText(Text(call[t]), call[t].va[1].v)

\* the part of C25 for the calls C defines (a pointer as wide as long long)
C25_PointerFormatDefined ==
  \A t \in DOMAIN call : \A w \in PointerWidths :
    (PointerCall(call[t], w) /\ Defined(call[t]))
      => PointerText(Text(call[t]), call[t].va[1].v)

\* "%4p" of 0x7fff12345678: 12 significant digits, 4 padding zeros
C25_DefinedWitness ==
  \E t \in DOMAIN call :
    /\ PointerCall(call[t], <<"4">>) /\ Defined(call[t])
    /\ call[t].va[1].v = <<0, 32767, 4660, 22136>>
    /\ Text(call[t]) = <<"0", "x", "0", "0", "0", "0", "7", "f", "f", "f",
                         "1", "2", "3", "4", "5", "6", "7", "8">>

---------------------------------------------------------------------------
(* The alternate form of %o.                                               *)

\* a completed call of one %o token with the '#' flag, no length modifier
\* and no '*', and one unsigned int that is not 0
OctalAlternateCall(c) ==
  /\ c.pc = "done" /\ Defined(c)
  /\ IsToken(c.fmt, "o") /\ Has(c.fmt, "#")
  /\ \A i \in 1..Len(c.fmt) : c.fmt[i] \notin LengthChars
  /\ Len(c.va) = 1 /\ c.va[1].ty = "int"
  /\ FitsNat(c.va[1].v) /\ ~IsZero64(c.va[1].v)

OctalDigits(c) == Numeral(ToNat(c.va[1].v), BASE_OCTAL, FALSE)

WithoutSpaces(text) == SelectSeq(text, LAMBDA ch : ch # " ")

\* the zeros that the precision, or the width with the '0' flag, put in
\* front of the digits: up to the larger of both, and no further than the
\* capacity of the scratch buffer
OctalPaddingTarget(c) ==
  Min(PRINTF_NTOA_BUFFER_SIZE,
      Max(c.precision,
          IF FLAGS_ZEROPAD \in c.flags /\ FLAGS_LEFT \notin c.flags THEN c.width ELSE 0))

OctalPaddingZeros(c) == Max(0, OctalPaddingTarget(c) - Len(OctalDigits(c)))

\* C26: "%#o" adds no '0' prefix where the padding of the precision or of
\* the zero-pad width has written at least one '0' in front of the digits
\* (no double "00"), and exactly one '0' where no padding zero was written
\* and the value is not zero.
C26_OctalPrefixOnce ==
  \A t \in DOMAIN call :
    (call[t].pc # "idle" /\ OctalAlternateCall(call[t])) =>
      WithoutSpaces(Text(call[t]))
        = Zeros(IF OctalPaddingZeros(call[t]) > 0 THEN OctalPaddingZeros(call[t]) ELSE 1)
          \o OctalDigits(call[t])

\* "%#.4o" of 8 gives "0010" and "%#o" of 8 gives "010"
C26_Witness ==
  \E t \in DOMAIN call :
    /\ call[t].pc # "idle" /\ OctalAlternateCall(call[t])
    /\ call[t].va = <<IntArg(8)>>
    /\ \/ call[t].fmt = <<"%", "#", ".", "4", "o">> /\ Text(call[t]) = <<"0", "0", "1", "0">>
       \/ call[t].fmt = <<"%", "#", "o">> /\ Text(call[t]) = <<"0", "1", "0">>

---------------------------------------------------------------------------
(* The exponent part of the exponential notation.                          *)

ExponentLetters == {"e", "E"}

\* the conversion character, of a format that ends with its conversion
LastConv(c) == c.fmt[Len(c.fmt)]

\* a completed conversion of a finite value whose text has an exponent
ExponentCall(c) ==
  /\ FiniteCall(c)
  /\ LastConv(c) \in {"e", "E", "g", "G"}
  /\ \E i \in 1..Len(Text(c)) : Text(c)[i] \in ExponentLetters

ExponentAt(text) == CHOOSE i \in 1..Len(text) : text[i] \in ExponentLetters

\* what follows the letter, without the spaces that pad a left-aligned field
ExponentSuffix(text) ==
  WithoutSpaces(SubSeq(text, ExponentAt(text) + 1, Len(text)))

\* an explicit sign and two digits, or three digits of a value >= 100
SignedExponent(s) ==
  /\ Len(s) \in {3, 4}
  /\ s[1] \in {"+", "-"}
  /\ \A i \in 2..Len(s) : s[i] \in Digits
  /\ Len(s) = 4 => s[2] # "0"

---------------------------------------------------------------------------
(* The order of the sink invocations of one call.                          *)

\* the invocations for the output characters: all of them while the call
\* runs, all but the last one once it has returned
CharacterInvocations(c) ==
  IF c.pc = "done" THEN 1..(Len(c.log) - 1) ELSE 1..Len(c.log)

\* the positions 0, 1, 2, ... in this order
ConsecutivePositions(c) ==
  \A i \in CharacterInvocations(c) : c.log[i].at = FromInt(i - 1)

\* the last invocation of a call that has returned
TerminatorInvocation(c) == c.log[Len(c.log)]

\* min(count, limit - 1) over the integers, for a count that is far below
\* the limit where the limit is no int
TerminatorPosition(c) ==
  IF FitsNat(c.maxlen) THEN Min(c.ret, ToNat(c.maxlen) - 1) ELSE c.ret

TerminatedAtMin(c) ==
  /\ TerminatorInvocation(c).ch = NUL
  /\ FitsNat(TerminatorInvocation(c).at)
  /\ ToNat(TerminatorInvocation(c).at) = TerminatorPosition(c)

CountsInvocations(c) == c.ret = Len(c.log) - 1

\* C28 as stated: the sink gets the positions 0, 1, 2, ... once per output
\* character, then the terminator once at the position min(count, limit - 1),
\* and the count returned is the number of invocations before the terminator.
C28_SinkOrderAnyLimit ==
  \A t \in DOMAIN call :
    call[t].pc # "idle" =>
      /\ ConsecutivePositions(call[t])
      /\ call[t].pc = "done" =>
           TerminatedAtMin(call[t]) /\ CountsInvocations(call[t])

\* C28, with the limit 0 apart: the sink gets the positions 0, 1, 2, ... once
\* per output character and then the terminator once, at the position
\* min(count, limit - 1) for a limit of at least 1 and at the largest size_t
\* for the limit 0; the count returned is the number of invocations before
\* the terminator.
C28_SinkOrder ==
  \A t \in DOMAIN call :
    call[t].pc # "idle" =>
      /\ ConsecutivePositions(call[t])
      /\ call[t].pc = "done" =>
           /\ CountsInvocations(call[t])
           /\ IF IsZero64(call[t].maxlen)
                THEN /\ TerminatorInvocation(call[t]).ch = NUL
                     /\ TerminatorInvocation(call[t]).at = SizeMax(abi)
                ELSE TerminatedAtMin(call[t])

\* a truncated output: the terminator goes to limit - 1, below the count
C28_Witness ==
  \E t \in DOMAIN call :
    /\ call[t].pc = "done"
    /\ FitsNat(call[t].maxlen) /\ ToNat(call[t].maxlen) = 4
    /\ call[t].ret = 5
    /\ Len(call[t].log) = 6
    /\ TerminatorInvocation(call[t]).at = FromInt(3)

---------------------------------------------------------------------------
(* The conversion %s of a string that is there.                            *)

\* a completed call of one %s token without '*' and without a length
\* modifier, with a pointer to a string
StringCall(c) ==
  /\ c.pc = "done"
  /\ IsToken(c.fmt, "s")
  /\ \A i \in 1..Len(c.fmt) : c.fmt[i] \notin LengthChars
  /\ Len(c.va) = 1 /\ c.va[1].ty = "str" /\ ~c.va[1].v.null

\* what stands between the '%' and the 's', before and after the '.'
StringField(c) == SubSeq(c.fmt, 2, Len(c.fmt) - 1)

PrecisionGiven(c) == Has(c.fmt, ".")

DotOf(field) == CHOOSE i \in 1..Len(field) : field[i] = "."

NumberIn(field) ==
  ToNat(ParseFrom(SelectSeq(field, LAMBDA ch : ch \in Digits), 1, 10, Zero64))

StringWidth(c) ==
  IF PrecisionGiven(c)
    THEN NumberIn(SubSeq(StringField(c), 1, DotOf(StringField(c)) - 1))
    ELSE NumberIn(StringField(c))

StringPrecision(c) ==
  NumberIn(SubSeq(StringField(c), DotOf(StringField(c)) + 1, Len(StringField(c))))

\* the characters of the string the conversion is to emit
StringShown(c) ==
  IF PrecisionGiven(c)
    THEN SubSeq(c.va[1].v.cells, 1, Min(StringPrecision(c), Len(c.va[1].v.cells)))
    ELSE c.va[1].v.cells

StringPadding(c) ==
  Spaces(Max(StringWidth(c), Len(StringShown(c))) - Len(StringShown(c)))

\* C29: %s of a string emits its first min(P, length) characters where a
\* precision P is given and all of it otherwise, with spaces up to the width
\* in front of them, and behind them with the '-' flag.
C29_StringField ==
  \A t \in DOMAIN call :
    call[t].pc # "idle" =>
      (StringCall(call[t]) =>
        Text(call[t]) =
          (IF Has(call[t].fmt, "-")
             THEN StringShown(call[t]) \o StringPadding(call[t])
             ELSE StringPadding(call[t]) \o StringShown(call[t])))

C29_Witness ==
  \E t \in DOMAIN call :
    /\ call[t].pc # "idle"
    /\ StringCall(call[t])
    /\ call[t].fmt = <<"%", "8", ".", "2", "s">>
    /\ Text(call[t]) = Spaces(6) \o <<"h", "e">>

---------------------------------------------------------------------------
(* The critical section of the Unix CPU ports.                             *)

\* the thread t is between a critical_section_enter that has returned and
\* its critical_section_leave
InSection(t) == task[t].pc = "in"

AtMostOneInSection ==
  \A t, u \in DOMAIN task : InSection(t) /\ InSection(u) => t = u

\* the step in which the critical_section_enter of t returns
EnterReturns(t) == task[t].pc = "enter" /\ task'[t].pc = "in"

\* C30: with either port no two threads are at the same time between a
\* critical_section_enter that has returned and their critical_section_leave,
\* and the critical_section_enter of a thread returns only while no other
\* thread is there.
C30_MutualExclusion ==
  /\ []AtMostOneInSection
  /\ [][\A t \in DOMAIN task :
          EnterReturns(t) => \A u \in DOMAIN task : u # t => ~InSection(u)]_vars

\* the part of C30 that holds: the mutex of port_cpu_old.c is initialised
\* by port_cpu_init, and with it, or with a C library that takes the
\* zero-filled semaphore of port_cpu.c for an unlocked mutex, at most one
\* thread is in the section
C30_MutualExclusionOfMutex ==
  IsMutex(mutex) => AtMostOneInSection

\* a thread waits in critical_section_enter while another is in the section
C30_MutexWitness ==
  /\ IsMutex(mutex)
  /\ \E t, u \in DOMAIN task : InSection(t) /\ task[u].pc = "enter"

====
